---- MODULE Spec2Model ----
(***************************************************************************)
(* Task store, task lifecycle and alert scan of the potato-crop advisor:   *)
(* src/src/farmer_tasks/task_manager.py, alert_system.py and               *)
(* mcp_integration.py.                                                     *)
(*                                                                         *)
(* Time is the wall clock in seconds.  Optional values (None in Python)    *)
(* are sequences of length 0 or 1.  Task ids are uuid4 strings in the      *)
(* code; here a task's id is its row number, which is fresh like a uuid.   *)
(*                                                                         *)
(* create_task and update_task_status write their history entry through a  *)
(* second connection while their own write is uncommitted.  lockEnforced,  *)
(* fixed at the start, says what the store does with that: TRUE is SQLite, *)
(* which refuses the second write, so that every such call raises and      *)
(* leaves the store as it was; FALSE is a store that lets it through, on   *)
(* which the handlers run to their end as they are written.                *)
(***************************************************************************)
EXTENDS Integers, Sequences, FiniteSets, Bags, TLC

\* ---------------------------------------------------------------- bounds
MaxTasks == 2       \* rows of farmer_tasks in the lifecycle and alert specifications
MaxCreated == 3     \* rows of farmer_tasks in the creation specification
MaxAlerts == 3      \* notifications handed out in the alert specification

\* ------------------------------------------------------------ time units
Hour == 60 * 60
Day == 24 * Hour
HalfHour == 30 * 60

\* ----------------------------------------------------------- enumerations
TaskStatus == {"pending", "in_progress", "completed", "overdue", "cancelled"}
TaskPriority == {"low", "medium", "high", "urgent"}
TaskCategory ==
    {"irrigation", "fertilization", "pest_control", "harvesting", "planting",
     "monitoring", "equipment", "weather_alert", "market", "compliance"}

None == <<>>
Some(x) == <<x>>

\* ------------------------------------------------------------- the state
VARIABLES
    now,            \* datetime.now(), seconds
    lockEnforced,   \* the store grants one write transaction at a time
    farmer_tasks,   \* table farmer_tasks, rows in insertion order
    task_history,   \* table task_history: the (task_id, action) pairs it has rows for
    sent_alerts,    \* table sent_alerts; the row id is the second it was written
    delivered,      \* notifications handed to the channels: a bag of (task, kind)
    active_alerts,  \* FarmerAlertSystem.active_alerts, keyed by notification id
    recommendation_history,  \* RecommendationEngine.recommendation_history
    millis,         \* time.time(): the milliseconds past the second `now`
    client,         \* MCPClient: is_connected and the request ids it generated
    field_cache,    \* PotatoCropMCPServer.field_cache: the entries, by field id
    scans,          \* the calls of check_and_send_alerts under way, by caller
    ret             \* what the last call returned

vars == <<now, lockEnforced, farmer_tasks, task_history, sent_alerts, delivered,
          active_alerts, recommendation_history, millis, client, field_cache, scans,
          ret>>

\* ------------------------------------------------------------ FarmerTask
FarmerTask(id, title, category, priority, status, field_id, created_at, due_date, estimated_duration, cost_estimate, auto_generated, ai_confidence, zone_id, weather_dependent) ==
    [id |-> id, title |-> title, category |-> category, priority |-> priority,
     status |-> status, field_id |-> field_id, created_at |-> created_at,
     due_date |-> due_date, estimated_duration |-> estimated_duration,
     cost_estimate |-> cost_estimate, auto_generated |-> auto_generated,
     ai_confidence |-> ai_confidence, completion_notes |-> None,
     completed_at |-> None, zone_id |-> zone_id,
     weather_dependent |-> weather_dependent]

\* The columns no status update writes.
Content(t) ==
    [id |-> t.id, title |-> t.title, category |-> t.category, priority |-> t.priority,
     field_id |-> t.field_id, created_at |-> t.created_at, due_date |-> t.due_date,
     estimated_duration |-> t.estimated_duration, cost_estimate |-> t.cost_estimate,
     auto_generated |-> t.auto_generated, ai_confidence |-> t.ai_confidence,
     zone_id |-> t.zone_id, weather_dependent |-> t.weather_dependent]

\* ------------------------------------------------------- sequence helpers
Range(s) == {s[i] : i \in DOMAIN s}

\* Lexicographic order on the two sort keys of a keyed element [k1, k2, v].
KeyLess(a, b) == a.k1 < b.k1 \/ (a.k1 = b.k1 /\ a.k2 < b.k2)

\* Insert x into the sorted sequence s after every element whose key is not
\* greater (a stable insertion).
RECURSIVE InsertSorted(_, _)
InsertSorted(x, s) ==
    IF s = <<>> THEN <<x>>
    ELSE IF KeyLess(x, Head(s)) THEN <<x>> \o s
    ELSE <<Head(s)>> \o InsertSorted(x, Tail(s))

\* Stable sort of a sequence of keyed elements, ascending.
RECURSIVE SortKeyed(_)
SortKeyed(s) ==
    IF s = <<>> THEN <<>>
    ELSE InsertSorted(s[Len(s)], SortKeyed(SubSeq(s, 1, Len(s) - 1)))

Values(s) == [i \in DOMAIN s |-> s[i].v]

\* ------------------------------------------------------------ the store
\* A store handle as one call sees it: the two tables, whether the call has
\* raised, and the row count of its last UPDATE.
Db(tasks, hist) == [tasks |-> tasks, hist |-> hist, raised |-> FALSE, rowcount |-> 0]

CurrentDb == Db(farmer_tasks, task_history)

\* uuid.uuid4() for the next row.
NewId(db) == Len(db.tasks) + 1

\* _log_task_action opens its own connection and INSERTs into task_history.
\* Both callers run it between their own write and their own commit, so the
\* calling connection holds the store's write lock at that moment: a store that
\* enforces the lock refuses the INSERT (sqlite3.OperationalError, database is
\* locked) and the call raises.
log_task_action(db, task_id, action) ==
    IF db.raised THEN db
    ELSE IF lockEnforced THEN [db EXCEPT !.raised = TRUE]
    ELSE [db EXCEPT !.hist = @ \cup {[task_id |-> task_id, action |-> action]}]

\* create_task: INSERT the row, log "created", commit.  An exception before the
\* commit leaves the INSERT uncommitted, so the row is not in the store.
create_task(db, task) ==
    IF db.raised THEN db
    ELSE LET logged == log_task_action(db, task.id, "created")
         IN  IF logged.raised THEN [db EXCEPT !.raised = TRUE]
             ELSE [logged EXCEPT !.tasks = Append(db.tasks, task)]

\* A status update that also moves the task's due date to the time of the
\* update: a write to a column the lifecycle keeps as created.
UpdatedRowRescheduled(row, new_status, completion_notes, t) ==
    [row EXCEPT !.status = new_status, !.due_date = t]

\* The row after UPDATE farmer_tasks SET status = ?[, completed_at = ?]
\* [, completion_notes = ?]: completed_at is set when the new status is
\* completed, completion_notes whenever notes are given.
UpdatedRow(row, new_status, completion_notes, t) ==
    [row EXCEPT !.status = new_status,
                !.completed_at = IF new_status = "completed" THEN Some(t) ELSE @,
                !.completion_notes = IF completion_notes # None THEN completion_notes ELSE @]

\* update_task_status: UPDATE ... WHERE id = ?, log "status_changed", commit;
\* returns rowcount > 0.
update_task_status(db, task_id, new_status, completion_notes, t) ==
    IF db.raised THEN db
    ELSE LET updated == [i \in DOMAIN db.tasks |->
                            IF db.tasks[i].id = task_id
                            THEN UpdatedRow(db.tasks[i], new_status, completion_notes, t)
                            ELSE db.tasks[i]]
             matched == Cardinality({i \in DOMAIN db.tasks : db.tasks[i].id = task_id})
             logged == log_task_action(db, task_id, "status_changed")
         IN  IF logged.raised THEN [db EXCEPT !.raised = TRUE]
             ELSE [logged EXCEPT !.tasks = updated, !.rowcount = matched]

\* ORDER BY ... priority DESC compares the priority column as TEXT.
TextRank(priority) ==
    CASE priority = "high" -> 1
      [] priority = "low" -> 2
      [] priority = "medium" -> 3
      [] priority = "urgent" -> 4

\* An empty or absent filter list adds no condition to the query.
Passes(filter, value) == filter = {} \/ value \in filter

\* get_tasks_for_farmer: SELECT ... WHERE field_id IN (...) [AND status IN ...]
\* [AND category IN ...] [AND priority IN ...] ORDER BY due_date ASC, priority DESC.
get_tasks_for_farmer(tasks, field_ids, status_filter, category_filter, priority_filter) ==
    LET rows == SelectSeq(tasks, LAMBDA r :
                    /\ r.field_id \in field_ids
                    /\ Passes(status_filter, r.status)
                    /\ Passes(category_filter, r.category)
                    /\ Passes(priority_filter, r.priority))
        keyed == [i \in DOMAIN rows |->
                    [k1 |-> rows[i].due_date, k2 |-> 0 - TextRank(rows[i].priority),
                     v |-> rows[i]]]
    IN  Values(SortKeyed(keyed))

ActiveStatuses == {"pending", "in_progress"}

\* ---------------------------------------------------------------- queries
\* The loop of get_overdue_tasks over the active rows it fetched: every row
\* with due_date < current_time is written back as overdue through
\* update_task_status and returned with its status field set to overdue.
RECURSIVE OverdueLoop(_, _, _, _)
OverdueLoop(db, rows, t, overdue_tasks) ==
    IF db.raised \/ rows = <<>> THEN [db |-> db, tasks |-> overdue_tasks]
    ELSE LET task == Head(rows)
         IN  IF task.due_date < t
             THEN OverdueLoop(update_task_status(db, task.id, "overdue", None, t),
                              Tail(rows), t,
                              Append(overdue_tasks, [task EXCEPT !.status = "overdue"]))
             ELSE OverdueLoop(db, Tail(rows), t, overdue_tasks)

get_overdue_tasks(db, field_ids, t) ==
    OverdueLoop(db, get_tasks_for_farmer(db.tasks, field_ids, ActiveStatuses, {}, {}),
                t, <<>>)

\* get_upcoming_tasks: the active rows due by now + days_ahead, sorted by
\* (due_date, priority.value).
get_upcoming_tasks(tasks, field_ids, days_ahead, t) ==
    LET rows == SelectSeq(get_tasks_for_farmer(tasks, field_ids, ActiveStatuses, {}, {}),
                          LAMBDA r : r.due_date <= t + days_ahead * Day)
        keyed == [i \in DOMAIN rows |->
                    [k1 |-> rows[i].due_date, k2 |-> TextRank(rows[i].priority),
                     v |-> rows[i]]]
    IN  Values(SortKeyed(keyed))

RECURSIVE SumCost(_)
SumCost(rows) == IF rows = <<>> THEN 0 ELSE Head(rows).cost_estimate + SumCost(Tail(rows))

\* _get_category_breakdown
get_category_breakdown(rows) ==
    [c \in {r.category : r \in Range(rows)} |->
        [count |-> Len(SelectSeq(rows, LAMBDA r : r.category = c)),
         pending |-> Len(SelectSeq(rows, LAMBDA r : r.category = c /\ r.status = "pending")),
         completed |-> Len(SelectSeq(rows, LAMBDA r : r.category = c /\ r.status = "completed"))]]

NoSummary == <<>>

\* get_task_summary: all rows are fetched first, then get_overdue_tasks and
\* get_upcoming_tasks(3) run; the counts by status are taken from the rows
\* fetched first, the overdue count from what get_overdue_tasks returned.
get_task_summary(db, field_ids, t) ==
    LET all_tasks == get_tasks_for_farmer(db.tasks, field_ids, {}, {}, {})
        overdue == get_overdue_tasks(db, field_ids, t)
        upcoming_tasks == get_upcoming_tasks(overdue.db.tasks, field_ids, 3, t)
    IN  [db |-> overdue.db,
         summary |->
            IF overdue.db.raised THEN NoSummary
            ELSE <<[total_tasks |-> Len(all_tasks),
                    pending |-> Len(SelectSeq(all_tasks, LAMBDA r : r.status = "pending")),
                    in_progress |-> Len(SelectSeq(all_tasks, LAMBDA r : r.status = "in_progress")),
                    completed |-> Len(SelectSeq(all_tasks, LAMBDA r : r.status = "completed")),
                    overdue |-> Len(overdue.tasks),
                    upcoming_3_days |-> Len(upcoming_tasks),
                    urgent_tasks |-> Len(SelectSeq(all_tasks, LAMBDA r :
                        r.priority = "urgent" /\ r.status \in ActiveStatuses)),
                    auto_generated |-> Len(SelectSeq(all_tasks, LAMBDA r : r.auto_generated)),
                    total_estimated_cost |->
                        SumCost(SelectSeq(all_tasks, LAMBDA r : r.status # "completed")),
                    categories |-> get_category_breakdown(all_tasks)]>>]

\* ---------------------------------------------------------- task creation
\* dict.get(key, default) on an optional entry.
Get(entry, default) == IF entry = None THEN default ELSE entry[1]

\* generate_weather_alerts: three independent threshold checks on the forecast
\* (absent keys read as wind 0, min_temperature 10, precipitation 0), one
\* weather_alert task per check that fires.
generate_weather_alerts(db, field_id, weather_forecast, t) ==
    LET wind == IF Get(weather_forecast.wind_speed, 0) > 40
                THEN create_task(db,
                        FarmerTask(NewId(db), "High Wind Alert", "weather_alert", "high",
                                   "pending", field_id, t, t + 6 * Hour, 30, 0, TRUE, 95,
                                   None, TRUE))
                ELSE db
        frost == IF Get(weather_forecast.min_temperature, 10) < 2
                 THEN create_task(wind,
                        FarmerTask(NewId(wind), "Frost Warning", "weather_alert", "urgent",
                                   "pending", field_id, t, t + 12 * Hour, 60, 500, TRUE, 98,
                                   None, TRUE))
                 ELSE wind
        rain == IF Get(weather_forecast.precipitation, 0) > 50
                THEN create_task(frost,
                        FarmerTask(NewId(frost), "Heavy Rain Alert", "weather_alert",
                                   "medium", "pending", field_id, t, t + 8 * Hour, 45, 0,
                                   TRUE, 90, None, TRUE))
                ELSE frost
    IN  rain

Template(title, category, priority, duration, cost) ==
    [title |-> title, category |-> category, priority |-> priority,
     duration |-> duration, cost |-> cost]

\* The stage_tasks table of generate_growth_stage_tasks.
StageNames ==
    {"Emergence", "Vegetative_Growth", "Tuber_Initiation", "Tuber_Bulking", "Maturation"}

stage_tasks(stage) ==
    CASE stage = "Emergence" ->
            <<Template("Monitor Emergence Rate", "monitoring", "medium", 60, 0)>>
      [] stage = "Vegetative_Growth" ->
            <<Template("Optimize Irrigation Schedule", "irrigation", "high", 90, 200),
              Template("Apply Nitrogen Fertilizer", "fertilization", "high", 120, 800)>>
      [] stage = "Tuber_Initiation" ->
            <<Template("Reduce Nitrogen, Increase Potassium", "fertilization", "high",
                       90, 600)>>
      [] stage = "Tuber_Bulking" ->
            <<Template("Maintain Consistent Moisture", "irrigation", "urgent", 45, 150)>>
      [] stage = "Maturation" ->
            <<Template("Plan Harvest Schedule", "harvesting", "high", 120, 0)>>

\* The priority a stage task gets: raised one level from medium or high when
\* field_health < 70.
\* The adjustment without its health test: every priority is raised.
AdjustedPriorityAlways(priority, field_health) ==
    IF priority = "medium" THEN "high"
    ELSE IF priority = "high" THEN "urgent" ELSE priority

AdjustedPriority(priority, field_health) ==
    IF field_health < 70
    THEN IF priority = "medium" THEN "high"
         ELSE IF priority = "high" THEN "urgent" ELSE priority
    ELSE priority

RECURSIVE StageLoop(_, _, _, _, _)
StageLoop(db, templates, field_id, field_health, t) ==
    IF templates = <<>> THEN db
    ELSE LET task_data == Head(templates)
         IN  StageLoop(create_task(db,
                          FarmerTask(NewId(db), task_data.title, task_data.category,
                                     AdjustedPriority(task_data.priority, field_health),
                                     "pending", field_id, t, t + 2 * Day,
                                     task_data.duration, task_data.cost, TRUE, 85,
                                     None, FALSE)),
                       Tail(templates), field_id, field_health, t)

\* generate_growth_stage_tasks: one task per template of the stage; a stage
\* that is not a key of stage_tasks creates nothing.
generate_growth_stage_tasks(db, field_id, growth_stage, field_health, t) ==
    IF growth_stage \in StageNames
    THEN StageLoop(db, stage_tasks(growth_stage), field_id, field_health, t)
    ELSE db

\* category_mapping.get(action.get('type', 'monitoring'), MONITORING)
category_mapping(type) ==
    IF type \in {"irrigation", "fertilization", "pest_control", "monitoring"}
    THEN type ELSE "monitoring"

\* priority_mapping.get(action.get('priority', 'medium'), MEDIUM)
priority_mapping(priority) ==
    IF priority \in TaskPriority THEN priority ELSE "medium"

\* timing_days.get(action.get('timing', 'within_week'), 3)
timing_days(timing) ==
    CASE timing = "immediate" -> 1
      [] timing = "within_week" -> 3
      [] timing = "within_month" -> 14
      [] OTHER -> 3

\* _create_task_from_action
create_task_from_action(id, field_id, zone_id, action, t) ==
    FarmerTask(id, action.description,
               category_mapping(Get(action.type, "monitoring")),
               priority_mapping(Get(action.priority, "medium")),
               "pending", field_id, t,
               t + timing_days(Get(action.timing, "within_week")) * Day,
               90, Get(action.cost, 0), TRUE, 88, Some(zone_id), FALSE)

RECURSIVE ActionLoop(_, _, _, _, _)
ActionLoop(db, actions, field_id, zone_id, t) ==
    IF actions = <<>> THEN db
    ELSE ActionLoop(create_task(db,
                        create_task_from_action(NewId(db), field_id, zone_id,
                                                Head(actions), t)),
                    Tail(actions), field_id, zone_id, t)

RECURSIVE ZoneLoop(_, _, _, _)
ZoneLoop(db, zones, field_id, t) ==
    IF zones = <<>> THEN db
    ELSE ZoneLoop(ActionLoop(db, Get(Head(zones).actions, <<>>), field_id,
                             Head(zones).zone_id, t),
                  Tail(zones), field_id, t)

\* generate_ai_tasks_from_recommendations: one task per action of every zone;
\* nothing when the recommendations have no 'zones' key.
generate_ai_tasks_from_recommendations(db, field_id, recommendations, t) ==
    IF recommendations.zones = None THEN db
    ELSE ZoneLoop(db, recommendations.zones[1], field_id, t)

\* ------------------------------------------------------------- alert scan
\* AlertConfig.reminder_hours_before
reminder_hours_before == <<24, 4, 1>>

ReminderKind(hours_before) ==
    CASE hours_before = 24 -> "reminder_24h"
      [] hours_before = 4 -> "reminder_4h"
      [] hours_before = 1 -> "reminder_1h"

\* simulated_weather of _check_weather_alerts
simulated_weather == [wind_speed |-> 15, precipitation_probability |-> 20]

\* What one scan has done so far: the sent_alerts table, the notifications
\* handed out, the dashboard list, the wall clock, whether it has raised, and
\* its alerts_sent counters.
Scan(alerts, out, active, clk) ==
    [alerts |-> alerts, delivered |-> out, active |-> active, clk |-> clk,
     raised |-> FALSE, overdue |-> 0, urgent |-> 0, reminders |-> 0, weather |-> 0]

\* The query with an alert counted as sent from the moment a scan has decided
\* to send it.
alert_sent_or_reserved(alerts, task_id, alert_type) ==
    \/ \E row \in alerts : row.task_id = task_id /\ row.alert_type = alert_type
    \/ \E caller \in DOMAIN scans :
          /\ scans[caller].pc \in {"notify", "log"}
          /\ scans[caller].kind = alert_type
          /\ Head(scans[caller].tasks).id = task_id

\* _alert_sent: SELECT COUNT(*) ... WHERE task_id = ? AND alert_type = ? AND
\* status = 'sent' gives more than 0.
alert_sent(alerts, task_id, alert_type) ==
    \E row \in alerts : row.task_id = task_id /\ row.alert_type = alert_type

\* _store_notification_for_dashboard: active_alerts[notification_id] = {...},
\* notification_id being the second and the task id.
store_notification_for_dashboard(active, clk, task_id, alert_type) ==
    {a \in active : a.id # <<clk, task_id>>}
        \cup {[id |-> <<clk, task_id>>, type |-> alert_type, task_id |-> task_id,
               read |-> FALSE]}

\* _send_notification: the channels, then the dashboard list.
send_notification(sc, task_id, alert_type) ==
    [sc EXCEPT !.delivered = @ (+) SetToBag({<<task_id, alert_type>>}),
               !.active = store_notification_for_dashboard(@, sc.clk, task_id, alert_type)]

\* _log_alert_sent: INSERT INTO sent_alerts with id alert_<YYYYmmdd_HHMMSS>, the
\* table's primary key; a second row in the same second violates it and the
\* INSERT raises.
log_alert_sent(sc, task_id, alert_type) ==
    IF \E row \in sc.alerts : row.id = sc.clk
    THEN [sc EXCEPT !.raised = TRUE]
    ELSE [sc EXCEPT !.alerts =
             @ \cup {[id |-> sc.clk, task_id |-> task_id, alert_type |-> alert_type]}]

\* One _send_*_alert: notify, then log.  With cross, the wall clock passes a
\* second boundary after the alert; without, the scan stays within one second.
send_alert(sc, task_id, alert_type, cross) ==
    IF sc.raised THEN sc
    ELSE LET logged == log_alert_sent(send_notification(sc, task_id, alert_type),
                                      task_id, alert_type)
         IN  IF cross /\ ~logged.raised THEN [logged EXCEPT !.clk = @ + 1] ELSE logged

\* _check_reminder_alerts
RECURSIVE check_reminder_alerts(_, _, _, _, _)
check_reminder_alerts(sc, task, current_time, hours, cross) ==
    IF sc.raised \/ hours = <<>> THEN sc
    ELSE LET hours_before == Head(hours)
             reminder_time == task.due_date - hours_before * Hour
             kind == ReminderKind(hours_before)
             fire == /\ current_time >= reminder_time
                     /\ current_time < reminder_time + HalfHour
                     /\ ~alert_sent(sc.alerts, task.id, kind)
             sent == IF fire
                     THEN LET s1 == send_alert(sc, task.id, kind, cross)
                          IN  IF s1.raised THEN s1
                              ELSE [s1 EXCEPT !.reminders = @ + 1]
                     ELSE sc
         IN  check_reminder_alerts(sent, task, current_time, Tail(hours), cross)

\* _is_weather_suitable
is_weather_suitable(task, weather) ==
    CASE task.category = "irrigation" -> weather.precipitation_probability < 30
      [] task.category = "fertilization" ->
            weather.wind_speed < 20 /\ weather.precipitation_probability < 20
      [] task.category = "pest_control" ->
            weather.wind_speed < 15 /\ weather.precipitation_probability < 10
      [] task.category = "harvesting" -> weather.precipitation_probability < 10
      [] OTHER -> TRUE

\* _is_weather_unsuitable
is_weather_unsuitable(task, weather) ==
    CASE task.category = "irrigation" -> weather.precipitation_probability > 70
      [] task.category = "fertilization" ->
            weather.wind_speed > 30 \/ weather.precipitation_probability > 60
      [] task.category = "pest_control" ->
            weather.wind_speed > 25 \/ weather.precipitation_probability > 50
      [] task.category = "harvesting" -> weather.precipitation_probability > 40
      [] OTHER -> FALSE

\* _check_weather_alerts
check_weather_alerts(sc, task, cross) ==
    IF sc.raised THEN sc
    ELSE IF task.weather_dependent /\ ~alert_sent(sc.alerts, task.id, "weather_suitable")
    THEN LET kind == IF is_weather_suitable(task, simulated_weather)
                     THEN "weather_suitable"
                     ELSE IF is_weather_unsuitable(task, simulated_weather)
                          THEN "weather_warning" ELSE "none"
         IN  IF kind = "none" THEN sc
             ELSE LET s1 == send_alert(sc, task.id, kind, cross)
                  IN  IF s1.raised THEN s1 ELSE [s1 EXCEPT !.weather = @ + 1]
    ELSE sc

\* The body of the loop with the three checks made one after the other instead
\* of as alternatives.
ScanTaskEveryBranch(sc, task, current_time, cross) ==
    LET overdue ==
            IF task.due_date < current_time /\ task.status # "overdue"
            THEN LET s1 == send_alert(sc, task.id, "overdue", cross)
                 IN  IF s1.raised THEN s1 ELSE [s1 EXCEPT !.overdue = @ + 1]
            ELSE sc
        urgent ==
            IF overdue.raised THEN overdue
            ELSE IF task.priority = "urgent" /\ ~alert_sent(overdue.alerts, task.id, "urgent")
            THEN LET s1 == send_alert(overdue, task.id, "urgent", cross)
                 IN  IF s1.raised THEN s1 ELSE [s1 EXCEPT !.urgent = @ + 1]
            ELSE overdue
        first == check_reminder_alerts(urgent, task, current_time, reminder_hours_before,
                                       cross)
    IN  IF task.weather_dependent THEN check_weather_alerts(first, task, cross)
        ELSE first

\* The body of the loop of check_and_send_alerts for one task.
ScanTask(sc, task, current_time, cross) ==
    LET first ==
            IF task.due_date < current_time /\ task.status # "overdue"
            THEN LET s1 == send_alert(sc, task.id, "overdue", cross)
                 IN  IF s1.raised THEN s1 ELSE [s1 EXCEPT !.overdue = @ + 1]
            ELSE IF task.priority = "urgent" /\ ~alert_sent(sc.alerts, task.id, "urgent")
            THEN LET s1 == send_alert(sc, task.id, "urgent", cross)
                 IN  IF s1.raised THEN s1 ELSE [s1 EXCEPT !.urgent = @ + 1]
            ELSE check_reminder_alerts(sc, task, current_time, reminder_hours_before,
                                       cross)
    IN  IF task.weather_dependent THEN check_weather_alerts(first, task, cross)
        ELSE first

RECURSIVE ScanLoop(_, _, _, _)
ScanLoop(sc, tasks, current_time, cross) ==
    IF sc.raised \/ tasks = <<>> THEN sc
    ELSE ScanLoop(ScanTask(sc, Head(tasks), current_time, cross), Tail(tasks),
                  current_time, cross)

\* check_and_send_alerts over the active tasks of field_ids.
check_and_send_alerts(sc, tasks, field_ids, cross) ==
    ScanLoop(sc, get_tasks_for_farmer(tasks, field_ids, ActiveStatuses, {}, {}),
             sc.clk, cross)

\* ---------------------------------------------------------- what calls return
Returned(op, field_ids, raised, tasks, ids, success, summary) ==
    [op |-> op, fields |-> field_ids, raised |-> raised, tasks |-> tasks, ids |-> ids,
     success |-> success, summary |-> summary]

\* The ids of the rows db has and base has not.
CreatedIds(base, db) ==
    IF db.raised THEN <<>>
    ELSE [i \in 1 .. (Len(db.tasks) - Len(base.tasks)) |-> db.tasks[Len(base.tasks) + i].id]

\* A call's writes reach the store unless it raised.
Commit(db) ==
    /\ farmer_tasks' = IF db.raised THEN farmer_tasks ELSE db.tasks
    /\ task_history' = IF db.raised THEN task_history ELSE db.hist

AlertsUnchanged == UNCHANGED <<sent_alerts, delivered, active_alerts>>

\* ------------------------------------------------- scans run side by side
\* The callers that may have a scan under way at the same time.
Callers == {1, 2}

\* The counters of a scan, alerts_sent.
NoAlertsSent == [overdue |-> 0, urgent |-> 0, reminders |-> 0, weather |-> 0]

\* A caller with no scan under way.
IdleScan ==
    [pc |-> "idle", fields |-> {}, tasks |-> <<>>, current_time |-> 0, kind |-> "none",
     counter |-> "none", hours |-> <<>>, after |-> "none", alerts_sent |-> NoAlertsSent]

\* The scan with one of its counters raised by one.
Counted(sc) ==
    [sc EXCEPT !.alerts_sent =
        CASE sc.counter = "overdue" -> [@ EXCEPT !.overdue = @ + 1]
          [] sc.counter = "urgent" -> [@ EXCEPT !.urgent = @ + 1]
          [] sc.counter = "reminders" -> [@ EXCEPT !.reminders = @ + 1]
          [] sc.counter = "weather" -> [@ EXCEPT !.weather = @ + 1]]

\* The scan at the point it reaches after the alert it has logged.
Resumed(sc) ==
    IF sc.after = "next"
    THEN [sc EXCEPT !.pc = "task", !.tasks = Tail(@), !.kind = "none",
                    !.counter = "none", !.after = "none"]
    ELSE [sc EXCEPT !.pc = sc.after, !.kind = "none", !.counter = "none",
                    !.after = "none"]

\* The scan about to send an alert of the kind, to go on at after.
Sending(sc, kind, counter, after) ==
    [sc EXCEPT !.pc = "notify", !.kind = kind, !.counter = counter, !.after = after]

\* ------------------------------------------------------------------- Init
\* init_database creates the tables IF NOT EXISTS: the database file outlives
\* the process, and the manager starts on an empty store or on one that holds
\* a task already (here a pending one, created a day ago and due an hour ago).
StoredTasks ==
    {<<>>,
     <<FarmerTask(1, "Stored Task", "irrigation", "medium", "pending", "field_001",
                  0 - Day, 0 - Hour, 60, 0, FALSE, 0, None, FALSE)>>}

Init ==
    /\ now = 0
    /\ lockEnforced \in BOOLEAN
    /\ farmer_tasks \in StoredTasks
    /\ task_history = {[task_id |-> farmer_tasks[i].id, action |-> "created"] :
                            i \in DOMAIN farmer_tasks}
    /\ sent_alerts = {}
    /\ delivered = EmptyBag
    /\ active_alerts = {}
    /\ recommendation_history = <<>>
    /\ millis = 0
    /\ client = [is_connected |-> FALSE, request_ids |-> <<>>]
    /\ field_cache = [field_id \in {} |-> None]
    /\ scans = [caller \in Callers |-> IdleScan]
    /\ ret = Returned("init", {}, FALSE, <<>>, <<>>, FALSE, NoSummary)

\* ---------------------------------------------------------------- actions
\* Each action is one call; its parameters are the sets its arguments are
\* drawn from.  The calls that create tasks take the number of rows the store
\* is let grow to.

\* The wall clock moves on.
Tick(instants) ==
    /\ \E t \in instants : t > now /\ now' = t
    /\ UNCHANGED <<scans, millis, client, field_cache, recommendation_history, lockEnforced, farmer_tasks, task_history, sent_alerts, delivered,
                   active_alerts, ret>>

\* FarmerTaskManager.create_task called with a task the caller built.
CreateTask(limit, fields, priorities) ==
    \E field_id \in fields, priority \in priorities :
        LET db == create_task(CurrentDb,
                      FarmerTask(NewId(CurrentDb), "Manual Task", "irrigation", priority,
                                 "pending", field_id, now, now + Hour, 60, 0, FALSE, 0,
                                 None, TRUE))
        IN  /\ Len(farmer_tasks) < limit
            /\ Commit(db)
            /\ ret' = Returned("create_task", {field_id}, db.raised, <<>>,
                               CreatedIds(CurrentDb, db), ~db.raised, NoSummary)
            /\ UNCHANGED <<scans, millis, client, field_cache, recommendation_history, now, lockEnforced>>
            /\ AlertsUnchanged

\* The create_farmer_task tool: TaskCategory(category) and TaskPriority(priority)
\* raise on a string that is no member; every exception is caught and reported.
CreateFarmerTask(limit, fields, categories, priorities, hours) ==
    \E field_id \in fields, category \in categories, priority \in priorities,
       due_hours \in hours :
        LET valid == category \in TaskCategory /\ priority \in TaskPriority
            db == IF valid
                  THEN create_task(CurrentDb,
                          FarmerTask(NewId(CurrentDb), "Tool Task", category, priority,
                                     "pending", field_id, now, now + due_hours * Hour,
                                     60, 0, FALSE, 0, None, FALSE))
                  ELSE [CurrentDb EXCEPT !.raised = TRUE]
        IN  /\ Len(farmer_tasks) < limit
            /\ Commit(db)
            /\ ret' = Returned("create_farmer_task", {field_id}, db.raised, <<>>,
                               CreatedIds(CurrentDb, db), ~db.raised, NoSummary)
            /\ UNCHANGED <<scans, millis, client, field_cache, recommendation_history, now, lockEnforced>>
            /\ AlertsUnchanged

\* FarmerTaskManager.update_task_status.
UpdateTaskStatus(ids, statuses, notes_given) ==
    \E task_id \in ids, new_status \in statuses, notes \in notes_given :
        LET db == update_task_status(CurrentDb, task_id, new_status, notes, now)
        IN  /\ Commit(db)
            /\ ret' = Returned("update_task_status", {}, db.raised, <<>>, <<>>,
                               ~db.raised /\ db.rowcount > 0, NoSummary)
            /\ UNCHANGED <<scans, millis, client, field_cache, recommendation_history, now, lockEnforced>>
            /\ AlertsUnchanged

\* The update_task_status tool: TaskStatus(new_status) raises on a string that
\* is no member, empty notes are passed on as None; exceptions are caught.
ToolUpdateTaskStatus(ids, statuses, notes_given) ==
    \E task_id \in ids, new_status \in statuses, notes \in notes_given :
        LET db == IF new_status \in TaskStatus
                  THEN update_task_status(CurrentDb, task_id, new_status,
                                          IF notes = "" THEN None ELSE Some(notes), now)
                  ELSE [CurrentDb EXCEPT !.raised = TRUE]
        IN  /\ Commit(db)
            /\ ret' = Returned("tool_update_task_status", {}, db.raised, <<>>, <<>>,
                               ~db.raised /\ db.rowcount > 0, NoSummary)
            /\ UNCHANGED <<scans, millis, client, field_cache, recommendation_history, now, lockEnforced>>
            /\ AlertsUnchanged

\* FarmerTaskManager.get_tasks_for_farmer (and the get_farmer_tasks tool).
GetTasksForFarmer(fieldsets, status_filters, category_filters, priority_filters) ==
    \E field_ids \in fieldsets, status_filter \in status_filters,
       category_filter \in category_filters, priority_filter \in priority_filters :
        /\ ret' = Returned("get_tasks_for_farmer", field_ids, FALSE,
                           get_tasks_for_farmer(farmer_tasks, field_ids, status_filter,
                                                category_filter, priority_filter),
                           <<>>, TRUE, NoSummary)
        /\ UNCHANGED <<scans, millis, client, field_cache, recommendation_history, now, lockEnforced, farmer_tasks, task_history>>
        /\ AlertsUnchanged

\* FarmerTaskManager.get_overdue_tasks.
GetOverdueTasks(fieldsets) ==
    \E field_ids \in fieldsets :
        LET got == get_overdue_tasks(CurrentDb, field_ids, now)
        IN  /\ Commit(got.db)
            /\ ret' = Returned("get_overdue_tasks", field_ids, got.db.raised,
                               IF got.db.raised THEN <<>> ELSE got.tasks, <<>>,
                               ~got.db.raised, NoSummary)
            /\ UNCHANGED <<scans, millis, client, field_cache, recommendation_history, now, lockEnforced>>
            /\ AlertsUnchanged

\* FarmerTaskManager.get_upcoming_tasks.
GetUpcomingTasks(fieldsets, days) ==
    \E field_ids \in fieldsets, days_ahead \in days :
        /\ ret' = Returned("get_upcoming_tasks", field_ids, FALSE,
                           get_upcoming_tasks(farmer_tasks, field_ids, days_ahead, now),
                           <<>>, TRUE, NoSummary)
        /\ UNCHANGED <<scans, millis, client, field_cache, recommendation_history, now, lockEnforced, farmer_tasks, task_history>>
        /\ AlertsUnchanged

\* FarmerTaskManager.get_task_summary.
GetTaskSummary(fieldsets) ==
    \E field_ids \in fieldsets :
        LET got == get_task_summary(CurrentDb, field_ids, now)
        IN  /\ Commit(got.db)
            /\ ret' = Returned("get_task_summary", field_ids, got.db.raised, <<>>, <<>>,
                               ~got.db.raised, got.summary)
            /\ UNCHANGED <<scans, millis, client, field_cache, recommendation_history, now, lockEnforced>>
            /\ AlertsUnchanged

\* The get_task_summary tool: the summary, then get_upcoming_tasks(7) and
\* get_overdue_tasks once more, whose result it lists as overdue_tasks.
ToolGetTaskSummary(fieldsets) ==
    \E field_ids \in fieldsets :
        LET got == get_task_summary(CurrentDb, field_ids, now)
            again == get_overdue_tasks(got.db, field_ids, now)
        IN  /\ Commit(again.db)
            /\ ret' = Returned("tool_get_task_summary", field_ids, again.db.raised,
                               IF again.db.raised THEN <<>> ELSE again.tasks, <<>>,
                               ~again.db.raised,
                               IF again.db.raised THEN NoSummary ELSE got.summary)
            /\ UNCHANGED <<scans, millis, client, field_cache, recommendation_history, now, lockEnforced>>
            /\ AlertsUnchanged

\* FarmerTaskManager.generate_weather_alerts.
GenerateWeatherAlerts(limit, fields, forecasts) ==
    \E field_id \in fields, weather_forecast \in forecasts :
        LET db == generate_weather_alerts(CurrentDb, field_id, weather_forecast, now)
        IN  /\ Len(farmer_tasks) < limit /\ Len(db.tasks) <= limit
            /\ Commit(db)
            /\ ret' = Returned("generate_weather_alerts", {field_id}, db.raised, <<>>,
                               CreatedIds(CurrentDb, db), ~db.raised, NoSummary)
            /\ UNCHANGED <<scans, millis, client, field_cache, recommendation_history, now, lockEnforced>>
            /\ AlertsUnchanged

\* FarmerTaskManager.generate_growth_stage_tasks.
GenerateGrowthStageTasks(limit, fields, stages, healths) ==
    \E field_id \in fields, growth_stage \in stages, field_health \in healths :
        LET db == generate_growth_stage_tasks(CurrentDb, field_id, growth_stage,
                                              field_health, now)
        IN  /\ Len(farmer_tasks) < limit /\ Len(db.tasks) <= limit
            /\ Commit(db)
            /\ ret' = Returned("generate_growth_stage_tasks", {field_id}, db.raised,
                               <<>>, CreatedIds(CurrentDb, db), ~db.raised, NoSummary)
            /\ UNCHANGED <<scans, millis, client, field_cache, recommendation_history, now, lockEnforced>>
            /\ AlertsUnchanged

\* FarmerTaskManager.generate_ai_tasks_from_recommendations.
GenerateAiTasksFromRecommendations(limit, fields, recs) ==
    \E field_id \in fields, recommendations \in recs :
        LET db == generate_ai_tasks_from_recommendations(CurrentDb, field_id,
                                                         recommendations, now)
        IN  /\ Len(farmer_tasks) < limit /\ Len(db.tasks) <= limit
            /\ Commit(db)
            /\ ret' = Returned("generate_ai_tasks_from_recommendations", {field_id},
                               db.raised, <<>>, CreatedIds(CurrentDb, db), ~db.raised,
                               NoSummary)
            /\ UNCHANGED <<scans, millis, client, field_cache, recommendation_history, now, lockEnforced>>
            /\ AlertsUnchanged

\* The generate_ai_tasks tool: the stage tasks, then the weather alerts of its
\* mock forecast (precipitation 30, wind_speed 15, no min_temperature).
ToolGenerateAiTasks(limit, fields, stages, healths) ==
    \E field_id \in fields, growth_stage \in stages, field_health \in healths :
        LET staged == generate_growth_stage_tasks(CurrentDb, field_id, growth_stage,
                                                  field_health, now)
            db == generate_weather_alerts(staged, field_id,
                      [wind_speed |-> Some(15), min_temperature |-> None,
                       precipitation |-> Some(30)], now)
        IN  /\ Len(farmer_tasks) < limit /\ Len(db.tasks) <= limit
            /\ Commit(db)
            /\ ret' = Returned("tool_generate_ai_tasks", {field_id}, db.raised, <<>>,
                               CreatedIds(CurrentDb, db), ~db.raised, NoSummary)
            /\ UNCHANGED <<scans, millis, client, field_cache, recommendation_history, now, lockEnforced>>
            /\ AlertsUnchanged

\* FarmerAlertSystem.check_and_send_alerts.  What the scan wrote before an
\* exception stays written: every sent_alerts row is committed on its own.
CheckAndSendAlerts(fieldsets) ==
    \E field_ids \in fieldsets, cross \in BOOLEAN :
        LET sc == check_and_send_alerts(
                      Scan(sent_alerts, delivered, active_alerts, now),
                      farmer_tasks, field_ids, cross)
        IN  /\ BagCardinality(sc.delivered) <= MaxAlerts
            /\ sent_alerts' = sc.alerts
            /\ delivered' = sc.delivered
            /\ active_alerts' = sc.active
            /\ now' = sc.clk
            /\ ret' = Returned("check_and_send_alerts", field_ids, sc.raised, <<>>, <<>>,
                               ~sc.raised,
                               IF sc.raised THEN NoSummary
                               ELSE <<[overdue |-> sc.overdue, urgent |-> sc.urgent,
                                       reminders |-> sc.reminders,
                                       weather |-> sc.weather,
                                       total |-> sc.overdue + sc.urgent + sc.reminders
                                                    + sc.weather]>>)
            /\ UNCHANGED <<scans, millis, client, field_cache, recommendation_history, lockEnforced, farmer_tasks, task_history>>

\* check_and_send_alerts called by one of several callers at a time, in the
\* steps between which another caller's scan can run: the query for the active
\* tasks, the choice of the branch with its _alert_sent query, each reminder's
\* and the weather alert's _alert_sent query, _send_notification, and
\* _log_alert_sent.
ScanBegin(caller, fieldsets) ==
    \E field_ids \in fieldsets :
        /\ scans[caller].pc = "idle"
        /\ scans' = [scans EXCEPT ![caller] =
              [IdleScan EXCEPT !.pc = "task", !.fields = field_ids,
                  !.tasks = get_tasks_for_farmer(farmer_tasks, field_ids, ActiveStatuses,
                                                 {}, {}),
                  !.current_time = now]]
        /\ UNCHANGED <<millis, client, field_cache, recommendation_history, now,
                       lockEnforced, farmer_tasks, task_history, ret>>
        /\ AlertsUnchanged

\* The end of the loop: return alerts_sent.
ScanEnd(caller) ==
    LET sc == scans[caller]
    IN  /\ sc.pc = "task"
        /\ sc.tasks = <<>>
        /\ scans' = [scans EXCEPT ![caller] = IdleScan]
        /\ ret' = Returned("check_and_send_alerts", sc.fields, FALSE, <<>>, <<>>, TRUE,
                           <<[overdue |-> sc.alerts_sent.overdue,
                              urgent |-> sc.alerts_sent.urgent,
                              reminders |-> sc.alerts_sent.reminders,
                              weather |-> sc.alerts_sent.weather,
                              total |-> sc.alerts_sent.overdue + sc.alerts_sent.urgent
                                           + sc.alerts_sent.reminders
                                           + sc.alerts_sent.weather]>>)
        /\ UNCHANGED <<millis, client, field_cache, recommendation_history, now,
                       lockEnforced, farmer_tasks, task_history>>
        /\ AlertsUnchanged

\* if due_date < current_time ... elif urgent and not _alert_sent ... else.
ScanBranch(caller) ==
    LET sc == scans[caller]
        task == Head(sc.tasks)
    IN  /\ sc.pc = "task"
        /\ sc.tasks # <<>>
        /\ scans' = [scans EXCEPT ![caller] =
              IF task.due_date < sc.current_time /\ task.status # "overdue"
              THEN Sending(sc, "overdue", "overdue", "weather")
              ELSE IF task.priority = "urgent"
                      /\ ~alert_sent(sent_alerts, task.id, "urgent")
              THEN Sending(sc, "urgent", "urgent", "weather")
              ELSE [sc EXCEPT !.pc = "reminder", !.hours = reminder_hours_before]]
        /\ UNCHANGED <<millis, client, field_cache, recommendation_history, now,
                       lockEnforced, farmer_tasks, task_history, ret>>
        /\ AlertsUnchanged

\* One round of the loop of _check_reminder_alerts.
ScanReminder(caller) ==
    LET sc == scans[caller]
        task == Head(sc.tasks)
        hours_before == Head(sc.hours)
        reminder_time == task.due_date - hours_before * Hour
        fire == /\ sc.current_time >= reminder_time
                /\ sc.current_time < reminder_time + HalfHour
                /\ ~alert_sent(sent_alerts, task.id, ReminderKind(hours_before))
    IN  /\ sc.pc = "reminder"
        /\ scans' = [scans EXCEPT ![caller] =
              IF sc.hours = <<>> THEN [sc EXCEPT !.pc = "weather"]
              ELSE IF fire
              THEN Sending([sc EXCEPT !.hours = Tail(@)], ReminderKind(hours_before),
                           "reminders", "reminder")
              ELSE [sc EXCEPT !.hours = Tail(@)]]
        /\ UNCHANGED <<millis, client, field_cache, recommendation_history, now,
                       lockEnforced, farmer_tasks, task_history, ret>>
        /\ AlertsUnchanged

\* if task.weather_dependent: _check_weather_alerts(task).
ScanWeather(caller) ==
    LET sc == scans[caller]
        task == Head(sc.tasks)
        kind == IF task.weather_dependent
                   /\ ~alert_sent(sent_alerts, task.id, "weather_suitable")
                THEN IF is_weather_suitable(task, simulated_weather)
                     THEN "weather_suitable"
                     ELSE IF is_weather_unsuitable(task, simulated_weather)
                          THEN "weather_warning" ELSE "none"
                ELSE "none"
    IN  /\ sc.pc = "weather"
        /\ scans' = [scans EXCEPT ![caller] =
              IF kind = "none" THEN Resumed([sc EXCEPT !.after = "next"])
              ELSE Sending(sc, kind, "weather", "next")]
        /\ UNCHANGED <<millis, client, field_cache, recommendation_history, now,
                       lockEnforced, farmer_tasks, task_history, ret>>
        /\ AlertsUnchanged

\* _send_notification of the alert the scan has decided on.
ScanNotify(caller, limit) ==
    LET sc == scans[caller]
        task == Head(sc.tasks)
        sent == send_notification(Scan(sent_alerts, delivered, active_alerts, now),
                                  task.id, sc.kind)
    IN  /\ sc.pc = "notify"
        /\ BagCardinality(delivered) < limit
        /\ delivered' = sent.delivered
        /\ active_alerts' = sent.active
        /\ scans' = [scans EXCEPT ![caller] = [sc EXCEPT !.pc = "log"]]
        /\ UNCHANGED <<millis, client, field_cache, recommendation_history, now,
                       lockEnforced, farmer_tasks, task_history, sent_alerts, ret>>

\* _log_alert_sent of the alert sent; the exception of a refused INSERT ends
\* the scan.
ScanLog(caller) ==
    LET sc == scans[caller]
        task == Head(sc.tasks)
        logged == log_alert_sent(Scan(sent_alerts, delivered, active_alerts, now),
                                 task.id, sc.kind)
    IN  /\ sc.pc = "log"
        /\ sent_alerts' = logged.alerts
        /\ scans' = [scans EXCEPT ![caller] =
              IF logged.raised THEN IdleScan ELSE Resumed(Counted(sc))]
        /\ ret' = IF logged.raised
                  THEN Returned("check_and_send_alerts", sc.fields, TRUE, <<>>, <<>>,
                                FALSE, NoSummary)
                  ELSE ret
        /\ UNCHANGED <<millis, client, field_cache, recommendation_history, now,
                       lockEnforced, farmer_tasks, task_history, delivered,
                       active_alerts>>

\* get_active_alerts: list(self.active_alerts.values()).
get_active_alerts(active) == active

\* mark_alert_read: the entry of alert_id, if there is one, gets read = True.
mark_alert_read(active, alert_id) ==
    {IF a.id = alert_id THEN [a EXCEPT !.read = TRUE] ELSE a : a \in active}

\* An alert id no entry of the dashboard list has.
NoAlertId == <<0 - 1, 0>>

\* FarmerAlertSystem.get_active_alerts.
GetActiveAlerts ==
    /\ ret' = Returned("get_active_alerts", {}, FALSE, <<>>, <<>>, TRUE,
                       <<get_active_alerts(active_alerts)>>)
    /\ UNCHANGED <<scans, millis, client, field_cache, recommendation_history, now, lockEnforced, farmer_tasks, task_history, sent_alerts, delivered,
                   active_alerts>>

\* FarmerAlertSystem.mark_alert_read, with the id of an entry or with an id
\* the list does not hold.
MarkAlertRead ==
    \E alert_id \in {a.id : a \in active_alerts} \cup {NoAlertId} :
        /\ active_alerts' = mark_alert_read(active_alerts, alert_id)
        /\ ret' = Returned("mark_alert_read", {}, FALSE, <<>>, <<alert_id>>,
                           \E a \in active_alerts : a.id = alert_id, NoSummary)
        /\ UNCHANGED <<scans, millis, client, field_cache, recommendation_history, now, lockEnforced, farmer_tasks, task_history, sent_alerts,
                       delivered>>

\* ------------------------------------------------- the recommendation engine
\* Numbers of the engine are kept exact in integers: vegetation indices and
\* yield impacts in hundredths, money in hundredths of a currency unit, water
\* in thousandths of a millimetre, areas in whole hectares, and each stress
\* indicator as a count of the denominator its formula divides by.
GrowthStage ==
    {"Planting", "Emergence", "Vegetative_Growth", "Tuber_Initiation", "Tuber_Bulking",
     "Maturation"}

\* CropManagementExpert.growth_stage_requirements
water_requirement_mm(stage) ==
    CASE stage = "Planting" -> 20
      [] stage = "Emergence" -> 25
      [] stage = "Vegetative_Growth" -> 35
      [] stage = "Tuber_Initiation" -> 45
      [] stage = "Tuber_Bulking" -> 50
      [] stage = "Maturation" -> 15

critical_nutrients(stage) ==
    CASE stage = "Planting" -> {"phosphorus"}
      [] stage = "Emergence" -> {"nitrogen", "phosphorus"}
      [] stage = "Vegetative_Growth" -> {"nitrogen"}
      [] stage = "Tuber_Initiation" -> {"potassium", "calcium"}
      [] stage = "Tuber_Bulking" -> {"potassium", "magnesium"}
      [] stage = "Maturation" -> {}

\* CropManagementExpert.nutrient_thresholds of the three nutrients assessed.
nutrient_thresholds(nutrient) ==
    CASE nutrient = "nitrogen" ->
            [severe_deficiency |-> 25, deficiency |-> 35, sufficient |-> 45, excess |-> 75]
      [] nutrient = "phosphorus" ->
            [severe_deficiency |-> 12, deficiency |-> 18, sufficient |-> 25, excess |-> 40]
      [] nutrient = "potassium" ->
            [severe_deficiency |-> 120, deficiency |-> 160, sufficient |-> 200,
             excess |-> 280]

\* conversion_factors, in tenths of kg/ha per ppm.
conversion_factors(nutrient) ==
    CASE nutrient = "nitrogen" -> 25
      [] nutrient = "phosphorus" -> 40
      [] nutrient = "potassium" -> 18

\* CropManagementExpert.fertilizer_prices, in tenths per kg.
fertilizer_prices(nutrient) ==
    CASE nutrient = "nitrogen" -> 996
      [] nutrient = "phosphorus" -> 1245
      [] nutrient = "potassium" -> 664

\* The nutrients of nutrient_status, in the order the dict is filled.
Nutrients == <<"nitrogen", "phosphorus", "potassium">>

Max(a, b) == IF a >= b THEN a ELSE b
Min(a, b) == IF a <= b THEN a ELSE b

\* zone_data.get(f'{nutrient}_level', 50)
LevelOf(zone_data, nutrient) ==
    CASE nutrient = "nitrogen" -> Get(zone_data.nitrogen_level, 50)
      [] nutrient = "phosphorus" -> Get(zone_data.phosphorus_level, 50)
      [] nutrient = "potassium" -> Get(zone_data.potassium_level, 50)

\* _assess_zone_health
assess_zone_health(zone_data) ==
    LET ndvi == Get(zone_data.NDVI_mean, 50)
        ndre == Get(zone_data.NDRE_mean, 30)
    IN  IF ndvi > 70 /\ ndre > 40 THEN "excellent"
        ELSE IF ndvi > 50 /\ ndre > 30 THEN "good"
        ELSE IF ndvi > 30 /\ ndre > 20 THEN "fair"
        ELSE "poor"

\* The status _assess_nutrient_status gives one nutrient.
StatusOf(nutrient, level) ==
    LET thresholds == nutrient_thresholds(nutrient)
    IN  IF level < thresholds.severe_deficiency THEN "severe_deficiency"
        ELSE IF level < thresholds.deficiency THEN "deficiency"
        ELSE IF level < thresholds.sufficient THEN "marginal"
        ELSE IF level > thresholds.excess THEN "excess"
        ELSE "sufficient"

\* _assess_nutrient_status
assess_nutrient_status(zone_data) ==
    [nutrient \in Range(Nutrients) |-> StatusOf(nutrient, LevelOf(zone_data, nutrient))]

\* The indicators with a water_stress that is whole as soon as the soil is
\* drier than 25 and the week drier than 20 mm.
calculate_stress_indicators_saturated(zone_data, weather_forecast) ==
    LET max_temp == Get(weather_forecast.max_temperature_7day, 25)
        nitrogen_level == Get(zone_data.nitrogen_level, 50)
    IN  [water_stress |->
            IF Get(zone_data.soil_moisture, 25) < 25
               /\ Get(weather_forecast.precipitation_7day, 10) < 20
            THEN 500 ELSE 0,
         temperature_stress |-> IF max_temp > 30 THEN Min(Max(0, max_temp - 30), 10) ELSE 0,
         nutrient_stress |-> Min(Max(0, 45 - nitrogen_level), 45)]

\* _calculate_stress_indicators: water_stress in 500ths, temperature_stress in
\* tenths, nutrient_stress in 45ths, each capped at one whole.
calculate_stress_indicators(zone_data, weather_forecast) ==
    LET soil_moisture == Get(zone_data.soil_moisture, 25)
        precipitation == Get(weather_forecast.precipitation_7day, 10)
        max_temp == Get(weather_forecast.max_temperature_7day, 25)
        nitrogen_level == Get(zone_data.nitrogen_level, 50)
        nitrogen_threshold == nutrient_thresholds("nitrogen").sufficient
    IN  [water_stress |-> Min(Max(0, 25 - soil_moisture) * Max(0, 20 - precipitation), 500),
         temperature_stress |-> IF max_temp > 30 THEN Min(Max(0, max_temp - 30), 10) ELSE 0,
         nutrient_stress |-> Min(Max(0, nitrogen_threshold - nitrogen_level),
                                 nitrogen_threshold)]

\* GrowthStage(growth_stage), with the ValueError handler's fallback.
StageEnum(growth_stage) ==
    IF growth_stage \in GrowthStage THEN growth_stage ELSE "Vegetative_Growth"

RecommendationAction(action_type, priority, description, timing, zone_id, application_rate, application_unit, estimated_cost, expected_benefit) ==
    [action_type |-> action_type, priority |-> priority, description |-> description,
     timing |-> timing, zone_ids |-> <<zone_id>>, application_rate |-> application_rate,
     application_unit |-> application_unit, estimated_cost |-> estimated_cost,
     expected_benefit |-> expected_benefit]

\* _generate_irrigation_recommendations.  The net requirement is
\* base * (1 + water_stress * 0.3) - precipitation, in thousandths of a mm
\* (every base requirement is a multiple of 5, so the division is exact); the
\* cost is 830 per mm and hectare.  Texts are kept as their words, without the
\* numbers formatted into them.
generate_irrigation_recommendations(zone_data, growth_stage, weather_forecast, stress) ==
    LET base_requirement == water_requirement_mm(StageEnum(growth_stage))
        precipitation == Get(weather_forecast.precipitation_7day, 0)
        net_requirement ==
            Max(0, base_requirement * 1000
                   + (base_requirement * 3 * stress.water_stress) \div 5
                   - precipitation * 1000)
        priority == IF stress.water_stress > 350 THEN "high" ELSE "medium"
        timing == IF priority = "high" THEN "immediate" ELSE "within_week"
    IN  IF net_requirement > 5000
        THEN <<RecommendationAction("irrigation", priority,
                   <<"Apply", "mm irrigation based on growth stage requirements",
                     "and stress indicators">>,
                   timing, zone_data.zone_id, Some(net_requirement), Some("mm"),
                   Some(net_requirement * 83 * Get(zone_data.area_ha, 1)),
                   Some(<<"Reduce water stress", growth_stage>>))>>
        ELSE <<>>

\* The action of one deficient nutrient, or none.
FertilizerAction(zone_data, growth_stage, nutrient, status) ==
    LET current_level == LevelOf(zone_data, nutrient)
        target_level == nutrient_thresholds(nutrient).sufficient
        deficit == target_level - current_level
        application_rate == deficit * conversion_factors(nutrient)
        high == status = "severe_deficiency"
                \/ nutrient \in critical_nutrients(StageEnum(growth_stage))
        total_cost == application_rate * Get(zone_data.area_ha, 1)
                      * fertilizer_prices(nutrient)
    IN  IF status \in {"severe_deficiency", "deficiency"}
        THEN <<RecommendationAction("fertilization",
                   IF high THEN "high" ELSE "medium",
                   <<"Apply", nutrient, "fertilizer to address", status>>,
                   IF high THEN "immediate" ELSE "within_week",
                   zone_data.zone_id, Some(application_rate), Some("kg/ha"),
                   Some(total_cost),
                   Some(<<"Increase levels", nutrient, growth_stage>>))>>
        ELSE <<>>

\* _generate_fertilizer_recommendations
generate_fertilizer_recommendations(zone_data, growth_stage, nutrient_status) ==
    FertilizerAction(zone_data, growth_stage, Nutrients[1], nutrient_status[Nutrients[1]])
    \o FertilizerAction(zone_data, growth_stage, Nutrients[2], nutrient_status[Nutrients[2]])
    \o FertilizerAction(zone_data, growth_stage, Nutrients[3], nutrient_status[Nutrients[3]])

\* _generate_pest_management_recommendations
generate_pest_management_recommendations(zone_data, growth_stage, weather_forecast) ==
    LET humidity == Get(weather_forecast.avg_humidity_7day, 65)
        temperature == Get(weather_forecast.avg_temperature_7day, 20)
        area_ha == Get(zone_data.area_ha, 1)
    IN  (IF humidity > 80 /\ 15 < temperature /\ temperature < 25
         THEN <<RecommendationAction("pest_management", "high",
                    <<"High late blight risk detected.",
                      "Apply preventive fungicide treatment">>,
                    "immediate", zone_data.zone_id, Some(25), Some("L/ha"),
                    Some(4500 * area_ha), Some(<<"Prevent late blight infection">>))>>
         ELSE <<>>)
        \o (IF growth_stage \in {"Emergence", "Vegetative_Growth"} /\ temperature > 15
            THEN <<RecommendationAction("pest_management", "medium",
                       <<"Monitor for Colorado potato beetle">>,
                       "within_week", zone_data.zone_id, None, None,
                       Some(2500 * area_ha), Some(<<"Early detection">>))>>
            ELSE <<>>)

\* `word in description`: a substring test; of the words of these texts only
\* severe_deficiency has deficiency inside it.
Mentions(description, word) ==
    \E k \in DOMAIN description :
        \/ description[k] = word
        \/ word = "deficiency" /\ description[k] = "severe_deficiency"

\* What one action adds to total_impact, in hundredths.
ImpactOf(action) ==
    IF action.action_type = "irrigation"
    THEN IF action.priority = "high" THEN 12 ELSE 8
    ELSE IF action.action_type = "fertilization"
    THEN IF Mentions(action.description, "severe_deficiency") THEN 20
         ELSE IF Mentions(action.description, "deficiency") THEN 10
         ELSE 5
    ELSE IF action.action_type = "pest_management"
    THEN IF action.priority = "high" THEN 15 ELSE 5
    ELSE 0

RECURSIVE TotalImpact(_)
TotalImpact(actions) ==
    IF actions = <<>> THEN 0 ELSE ImpactOf(Head(actions)) + TotalImpact(Tail(actions))

\* The estimate without the cap of its last line.
estimate_yield_impact_uncapped(actions) == TotalImpact(actions)

\* _estimate_yield_impact, in hundredths.
estimate_yield_impact(actions) == Min(TotalImpact(actions), 40)

RECURSIVE SumSeq(_)
SumSeq(numbers) ==
    IF numbers = <<>> THEN 0 ELSE Head(numbers) + SumSeq(Tail(numbers))

\* _generate_zone_recommendations
generate_zone_recommendations(zone_data, weather_forecast) ==
    LET growth_stage == Get(zone_data.growth_stage, "Vegetative_Growth")
        nutrient_status == assess_nutrient_status(zone_data)
        stress_indicators == calculate_stress_indicators(zone_data, weather_forecast)
        actions ==
            generate_irrigation_recommendations(zone_data, growth_stage, weather_forecast,
                                                stress_indicators)
            \o generate_fertilizer_recommendations(zone_data, growth_stage, nutrient_status)
            \o generate_pest_management_recommendations(zone_data, growth_stage,
                                                        weather_forecast)
    IN  [zone_id |-> zone_data.zone_id,
         area_ha |-> Get(zone_data.area_ha, 1),
         growth_stage |-> growth_stage,
         health_status |-> assess_zone_health(zone_data),
         nutrient_status |-> nutrient_status,
         stress_indicators |-> stress_indicators,
         actions |-> actions,
         estimated_yield_impact |-> estimate_yield_impact(actions),
         total_cost |-> SumSeq([k \in DOMAIN actions |-> Get(actions[k].estimated_cost, 0)])]

\* A quotient kept exact; np.mean of no values is nan.
Fraction(num, den) == [num |-> num, den |-> den]
NaN == Fraction(0, 0)

\* np.mean of the zones' yield impacts, as a fraction of one.
MeanYieldImpact(zones) ==
    IF zones = <<>> THEN NaN
    ELSE Fraction(SumSeq([k \in DOMAIN zones |-> zones[k].estimated_yield_impact]),
                  100 * Len(zones))

\* _calculate_field_summary
calculate_field_summary(zones) ==
    [total_area_ha |-> SumSeq([k \in DOMAIN zones |-> zones[k].area_ha]),
     total_zones |-> Len(zones),
     health_distribution |->
        [health \in {zones[k].health_status : k \in DOMAIN zones} |->
            Cardinality({k \in DOMAIN zones : zones[k].health_status = health})],
     high_priority_actions |->
        SumSeq([k \in DOMAIN zones |->
                   Len(SelectSeq(zones[k].actions, LAMBDA a : a.priority = "high"))]),
     average_yield_impact |-> MeanYieldImpact(zones),
     zones_needing_attention |->
        Cardinality({k \in DOMAIN zones : zones[k].health_status \in {"poor", "fair"}})]

\* A percentage kept exact: the value is 100 * num / den.
Percent(num, den) == [num |-> num, den |-> den]

IsNegative(percent) ==
    \/ percent.num < 0 /\ percent.den > 0
    \/ percent.num > 0 /\ percent.den < 0

\* (yield_improvement_value - total_cost) / total_cost * 100, where
\* yield_improvement_value = total_area * 25 * 300 * mean yield impact: the
\* numerator and the denominator in hundredths, times the number of zones.
RoiOf(zones, total_cost) ==
    LET total_area == SumSeq([k \in DOMAIN zones |-> zones[k].area_ha])
        impacts == SumSeq([k \in DOMAIN zones |-> zones[k].estimated_yield_impact])
    IN  Percent(total_area * 25 * 300 * impacts - total_cost * Len(zones),
                total_cost * Len(zones))

\* The estimate without the max(roi, 0) of its last line.
estimate_roi_unfloored(zones, total_cost) ==
    IF total_cost = 0 THEN Percent(0, 1) ELSE RoiOf(zones, total_cost)

\* _estimate_roi
estimate_roi(zones, total_cost) ==
    IF total_cost = 0 THEN Percent(0, 1)
    ELSE IF IsNegative(RoiOf(zones, total_cost)) THEN Percent(0, 1)
    ELSE RoiOf(zones, total_cost)

RECURSIVE ZoneRecommendations(_, _)
ZoneRecommendations(zone_analysis, weather_forecast) ==
    IF zone_analysis = <<>> THEN <<>>
    ELSE <<generate_zone_recommendations(Head(zone_analysis), weather_forecast)>>
         \o ZoneRecommendations(Tail(zone_analysis), weather_forecast)

\* generate_field_recommendations: what it returns and appends to the history.
generate_field_recommendations(zone_analysis, weather_forecast, field_id, t) ==
    LET zone_recommendations == ZoneRecommendations(zone_analysis, weather_forecast)
        total_cost ==
            SumSeq([k \in DOMAIN zone_recommendations |->
                       zone_recommendations[k].total_cost])
    IN  [field_id |-> field_id,
         analysis_date |-> t,
         zones |-> zone_recommendations,
         summary |-> calculate_field_summary(zone_recommendations),
         total_cost |-> total_cost,
         expected_roi |-> estimate_roi(zone_recommendations, total_cost)]

\* RecommendationEngine.generate_field_recommendations.
GenerateFieldRecommendations(limit, fields, zone_analyses, forecasts) ==
    \E field_id \in fields, zone_analysis \in zone_analyses, weather_forecast \in forecasts :
        LET field_recommendation ==
                generate_field_recommendations(zone_analysis, weather_forecast, field_id,
                                               now)
        IN  /\ Len(recommendation_history) < limit
            /\ recommendation_history' = Append(recommendation_history, field_recommendation)
            /\ ret' = Returned("generate_field_recommendations", {field_id}, FALSE, <<>>,
                               <<>>, TRUE, <<field_recommendation>>)
            /\ UNCHANGED <<scans, millis, client, field_cache, now, lockEnforced, farmer_tasks,
                           task_history>>
            /\ AlertsUnchanged

\* datetime.isoformat() and datetime.fromisoformat(): the text of an instant
\* and the instant of a text.
isoformat(t) == [iso |-> t]
fromisoformat(text) == text.iso

\* json.dumps and json.loads: the text of a value and the value of a text.
json_dumps(value) == [json |-> value]
json_loads(text) == text.json

\* export_recommendations with format 'json': the keys it writes for the
\* field, for every zone and for every action.
export_recommendations(field_recommendation) ==
    LET action_data(action) ==
            [action_type |-> action.action_type, priority |-> action.priority,
             description |-> action.description, timing |-> action.timing,
             application_rate |-> action.application_rate,
             application_unit |-> action.application_unit,
             estimated_cost |-> action.estimated_cost,
             expected_benefit |-> action.expected_benefit]
        zone_data(zone) ==
            [zone_id |-> zone.zone_id, area_ha |-> zone.area_ha,
             growth_stage |-> zone.growth_stage, health_status |-> zone.health_status,
             nutrient_status |-> zone.nutrient_status,
             stress_indicators |-> zone.stress_indicators,
             estimated_yield_impact |-> zone.estimated_yield_impact,
             total_cost |-> zone.total_cost,
             actions |-> [j \in DOMAIN zone.actions |-> action_data(zone.actions[j])]]
    IN  json_dumps(
            [field_id |-> field_recommendation.field_id,
             analysis_date |-> isoformat(field_recommendation.analysis_date),
             summary |-> field_recommendation.summary,
             total_cost |-> field_recommendation.total_cost,
             expected_roi |-> field_recommendation.expected_roi,
             zones |-> [k \in DOMAIN field_recommendation.zones |->
                           zone_data(field_recommendation.zones[k])]])

\* dict.get(key) of a Dict read from JSON: the value, or nothing for a key
\* the dict does not have.
DictGet(dict, key) == IF key \in DOMAIN dict THEN Some(dict[key]) ELSE None

\* The recommendations Dict as generate_ai_tasks_from_recommendations and
\* _create_task_from_action read it: 'zones'; of a zone 'zone_id' and
\* 'actions'; of an action 'description', 'type', 'priority', 'timing', 'cost'.
RecommendationsRead(dict) ==
    LET action_read(action) ==
            [description |-> Get(DictGet(action, "description"), "AI Recommendation"),
             type |-> DictGet(action, "type"), priority |-> DictGet(action, "priority"),
             timing |-> DictGet(action, "timing"), cost |-> DictGet(action, "cost")]
        zone_read(zone) ==
            [zone_id |-> zone.zone_id,
             actions |-> IF "actions" \in DOMAIN zone
                         THEN Some([j \in DOMAIN zone.actions |->
                                       action_read(zone.actions[j])])
                         ELSE None]
    IN  [zones |-> IF "zones" \in DOMAIN dict
                   THEN Some([k \in DOMAIN dict.zones |-> zone_read(dict.zones[k])])
                   ELSE None]

\* RecommendationEngine.export_recommendations of a recommendation the engine
\* has generated; a format other than 'json' raises ValueError.
ExportRecommendations(formats) ==
    \E k \in DOMAIN recommendation_history, format \in formats :
        /\ ret' = IF format = "json"
                  THEN Returned("export_recommendations",
                                {recommendation_history[k].field_id}, FALSE, <<>>, <<>>,
                                TRUE, <<export_recommendations(recommendation_history[k])>>)
                  ELSE Returned("export_recommendations",
                                {recommendation_history[k].field_id}, TRUE, <<>>, <<>>,
                                FALSE, NoSummary)
        /\ UNCHANGED <<scans, millis, client, field_cache, recommendation_history, now,
                       lockEnforced, farmer_tasks, task_history>>
        /\ AlertsUnchanged

\* generate_ai_tasks_from_recommendations called with the Dict loaded from the
\* text export_recommendations has just returned.
GenerateAiTasksFromExport(limit, fields) ==
    /\ ret.op = "export_recommendations"
    /\ ~ret.raised
    /\ GenerateAiTasksFromRecommendations(limit, fields,
            {RecommendationsRead(json_loads(ret.summary[1]))})

\* RecommendationEngine._estimate_yield_impact called with a list of actions.
EstimateYieldImpact(action_lists) ==
    \E actions \in action_lists :
        /\ ret' = Returned("estimate_yield_impact", {}, FALSE, <<>>, <<>>, TRUE,
                           <<[actions |-> actions,
                              estimated_yield_impact |-> estimate_yield_impact(actions)]>>)
        /\ UNCHANGED <<scans, millis, client, field_cache, recommendation_history, now, lockEnforced, farmer_tasks, task_history>>
        /\ AlertsUnchanged

\* ------------------------------------------------------------ the MCP client
\* int(time.time() * 1000): the wall clock in milliseconds.
time_ms(seconds, ms) == seconds * 1000 + ms

\* _generate_request_id: f"req_{int(time.time() * 1000)}", kept as the prefix
\* and the number printed after it.
generate_request_id(seconds, ms) == [prefix |-> "req_", number |-> time_ms(seconds, ms)]

\* The wall clock moves on within the second.
TickMillis(instants) ==
    /\ \E ms \in instants : ms > millis /\ millis' = ms
    /\ UNCHANGED <<scans, client, field_cache, recommendation_history, now, lockEnforced,
                   farmer_tasks, task_history, ret>>
    /\ AlertsUnchanged

\* MCPClient.connect: is_connected tells whether websockets.connect succeeded.
Connect(outcomes) ==
    \E connected \in outcomes :
        /\ client' = [client EXCEPT !.is_connected = connected]
        /\ ret' = Returned("connect", {}, FALSE, <<>>, <<>>, connected, NoSummary)
        /\ UNCHANGED <<scans, millis, field_cache, recommendation_history, now, lockEnforced,
                       farmer_tasks, task_history>>
        /\ AlertsUnchanged

\* MCPClient._generate_request_id called by itself.
GenerateRequestId(limit) ==
    /\ Len(client.request_ids) < limit
    /\ client' = [client EXCEPT
                     !.request_ids = Append(@, generate_request_id(now, millis))]
    /\ ret' = Returned("generate_request_id", {}, FALSE, <<>>,
                       <<generate_request_id(now, millis)>>, TRUE, NoSummary)
    /\ UNCHANGED <<scans, millis, field_cache, recommendation_history, now, lockEnforced,
                   farmer_tasks, task_history>>
    /\ AlertsUnchanged

\* MCPClient.call_tool: connects when it is not connected and raises when it
\* still is not; otherwise builds the request under a new id, sends it and
\* raises when the response carries an error.
CallTool(limit, outcomes, errors) ==
    \E connected \in outcomes, error \in errors :
        LET is_connected == client.is_connected \/ connected
            id == generate_request_id(now, millis)
        IN  /\ Len(client.request_ids) < limit
            /\ client' = [is_connected |-> is_connected,
                          request_ids |-> IF is_connected
                                          THEN Append(client.request_ids, id)
                                          ELSE client.request_ids]
            /\ ret' = Returned("call_tool", {}, ~is_connected \/ error, <<>>,
                               IF is_connected THEN <<id>> ELSE <<>>,
                               is_connected /\ ~error, NoSummary)
            /\ UNCHANGED <<scans, millis, field_cache, recommendation_history, now, lockEnforced,
                           farmer_tasks, task_history>>
            /\ AlertsUnchanged

\* ------------------------------------------------------------ the MCP server
\* self.field_cache[field_id] = entry
Cached(cache, field_id, entry) ==
    [f \in DOMAIN cache \cup {field_id} |-> IF f = field_id THEN entry ELSE cache[f]]

\* The staleness test with an entry counted as stale from 6 hours on.
should_update_satellite_data_from_six_hours(cache, field_id, t) ==
    IF field_id \notin DOMAIN cache THEN TRUE
    ELSE IF cache[field_id].last_updated = None THEN TRUE
    ELSE t - fromisoformat(cache[field_id].last_updated[1]) >= 6 * Hour

\* _should_update_satellite_data
should_update_satellite_data(cache, field_id, t) ==
    IF field_id \notin DOMAIN cache THEN TRUE
    ELSE IF cache[field_id].last_updated = None THEN TRUE
    ELSE t - fromisoformat(cache[field_id].last_updated[1]) > 6 * Hour

\* PotatoCropMCPServer._should_update_satellite_data.
ShouldUpdateSatelliteData(fields) ==
    \E field_id \in fields :
        /\ ret' = Returned("should_update_satellite_data", {field_id}, FALSE, <<>>, <<>>,
                           should_update_satellite_data(field_cache, field_id, now),
                           NoSummary)
        /\ UNCHANGED <<scans, millis, client, field_cache, recommendation_history, now,
                       lockEnforced, farmer_tasks, task_history>>
        /\ AlertsUnchanged

\* The trigger_satellite_processing tool: when forced or when the cached data
\* is stale it stores a new entry stamped now, from the download or, when the
\* download gave nothing, from the sample data.  (Its _trigger_ml_analysis
\* names the tools by names that are local to _register_tools; the NameError
\* is caught and logged, so nothing follows.)
TriggerSatelliteProcessing(fields, forces, downloads) ==
    \E field_id \in fields, force_download \in forces, band_data \in downloads :
        LET update == force_download
                      \/ should_update_satellite_data(field_cache, field_id, now)
        IN  /\ field_cache' =
                  IF update
                  THEN Cached(field_cache, field_id,
                              [last_updated |-> Some(isoformat(now)),
                               source |-> IF band_data THEN "satellite_download"
                                          ELSE "sample_data"])
                  ELSE field_cache
            /\ ret' = Returned("trigger_satellite_processing", {field_id}, FALSE, <<>>,
                               <<>>, update, NoSummary)
            /\ UNCHANGED <<scans, millis, client, recommendation_history, now, lockEnforced,
                           farmer_tasks, task_history>>
            /\ AlertsUnchanged

\* A caller stores an entry of its own, with or without a last_updated stamp.
PutCacheEntry(fields, stamped) ==
    \E field_id \in fields, with_stamp \in stamped :
        /\ field_cache' =
              Cached(field_cache, field_id,
                     [last_updated |-> IF with_stamp THEN Some(isoformat(now)) ELSE None,
                      source |-> "caller"])
        /\ ret' = Returned("put_cache_entry", {field_id}, FALSE, <<>>, <<>>, TRUE,
                           NoSummary)
        /\ UNCHANGED <<scans, millis, client, recommendation_history, now, lockEnforced,
                       farmer_tasks, task_history>>
        /\ AlertsUnchanged

\* ----------------------------------------------------------------- inputs
OneField == {"field_001"}
BothFields == {"field_001", "field_002"}

Forecast(wind, min_temp, precip) ==
    [wind_speed |-> wind, min_temperature |-> min_temp, precipitation |-> precip]

Action(type, priority, timing, cost) ==
    [description |-> "AI Recommendation", type |-> type, priority |-> priority,
     timing |-> timing, cost |-> cost]

Zone(zone_id, actions) == [zone_id |-> zone_id, actions |-> actions]

ZoneMeasurement(zone_id, area_ha, growth_stage, NDVI_mean, NDRE_mean, soil_moisture, nitrogen_level, phosphorus_level, potassium_level) ==
    [zone_id |-> zone_id, area_ha |-> area_ha, growth_stage |-> growth_stage,
     NDVI_mean |-> NDVI_mean, NDRE_mean |-> NDRE_mean, soil_moisture |-> soil_moisture,
     nitrogen_level |-> nitrogen_level, phosphorus_level |-> phosphorus_level,
     potassium_level |-> potassium_level]

WeatherForecast(precipitation, max_temperature, avg_humidity, avg_temperature) ==
    [precipitation_7day |-> precipitation, max_temperature_7day |-> max_temperature,
     avg_humidity_7day |-> avg_humidity, avg_temperature_7day |-> avg_temperature]

\* ------------------------------------------------------ the task lifecycle
\* Clock readings the environment moves the wall clock to.
Instants == {0, Day + 1}

Next ==
    \/ Tick(Instants)
    \/ CreateFarmerTask(MaxTasks, OneField, {"irrigation", "harvest"}, {"medium"},
                        {24})
    \/ UpdateTaskStatus(1 .. MaxTasks, TaskStatus, {None, Some("notes")})
    \/ ToolUpdateTaskStatus({1}, {"overdue", "done"}, {""})
    \/ GetOverdueTasks({OneField})
    \/ GetTaskSummary({OneField})

Spec == Init /\ [][Next]_vars

\* ------------------------------------------------------------ the queries
QueryNext ==
    \/ Tick(Instants)
    \/ CreateFarmerTask(MaxTasks, OneField, {"irrigation"}, {"medium", "high"},
                        {0 - 1, 24})
    \/ UpdateTaskStatus(1 .. MaxTasks, {"in_progress", "completed"}, {None})
    \/ GetTasksForFarmer({OneField}, {ActiveStatuses, {}}, {{}}, {{}})
    \/ GetUpcomingTasks({OneField}, {7})
    \/ GetOverdueTasks({OneField})

SpecQuery == Init /\ [][QueryNext]_vars

\* ------------------------------------------------------------ task creation
Forecasts ==
    {Forecast(Some(45), Some(1), Some(60)), Forecast(Some(45), None, None),
     Forecast(Some(40), Some(2), Some(50)), Forecast(None, None, None)}

\* Recommendations without zones, with one immediate action, with two zones
\* whose actions are timed within_week, within_month and by an unknown word,
\* and with an action without timing next to a zone without actions.
Recommendations ==
    {[zones |-> None],
     [zones |-> Some(<<Zone("zone_1",
                           Some(<<Action(Some("irrigation"), Some("high"),
                                         Some("immediate"), Some(150))>>))>>)],
     [zones |-> Some(<<Zone("zone_1",
                           Some(<<Action(Some("fertilization"), Some("medium"),
                                         Some("within_week"), Some(300)),
                                  Action(Some("pest_control"), Some("low"),
                                         Some("within_month"), Some(45))>>)),
                       Zone("zone_2",
                           Some(<<Action(Some("irrigation"), Some("medium"),
                                         Some("next_season"), Some(200))>>))>>)],
     [zones |-> Some(<<Zone("zone_1", None),
                       Zone("zone_2",
                           Some(<<Action(Some("monitoring"), None, None,
                                         Some(25))>>))>>)]}

\* Stage labels given to generate_growth_stage_tasks: templates of priority
\* medium, high and urgent, and a label that is no key of stage_tasks.
Stages == {"Emergence", "Vegetative_Growth", "Tuber_Bulking", "Flowering"}

\* Field health percentages on both sides of the adjustment's test.
Healths == {65, 70}

CreateNext ==
    \/ Tick(Instants)
    \/ CreateTask(MaxCreated, OneField, {"medium"})
    \/ CreateFarmerTask(MaxCreated, OneField, {"irrigation"}, {"medium"}, {0 - 1, 24})
    \/ GenerateWeatherAlerts(MaxCreated, OneField, Forecasts)
    \/ GenerateGrowthStageTasks(MaxCreated, OneField, Stages, Healths)
    \/ GenerateAiTasksFromRecommendations(MaxCreated, OneField, Recommendations)
    \/ ToolGenerateAiTasks(MaxCreated, OneField, {"Emergence"}, {65})

SpecCreate == Init /\ [][CreateNext]_vars

\* ------------------------------------------------------------ the alert scan
\* Clock readings for the scans: within the hour before a task created at 0 by
\* create_task is due, and after every such task is due.
AlertInstants == {0, HalfHour, 3 * Day}

AlertNext ==
    \/ Tick(AlertInstants)
    \/ CreateFarmerTask(MaxTasks, OneField, {"irrigation"}, {"urgent", "medium"}, {1, 48})
    \/ CreateTask(MaxTasks, OneField, {"medium"})
    \/ CheckAndSendAlerts({OneField})

SpecAlerts == Init /\ [][AlertNext]_vars

\* ------------------------------------------------- properties: task lifecycle
\* The number of rows of field_ids stored with one of the statuses.
StoredWithStatus(rows, field_ids, statuses) ==
    Cardinality({i \in DOMAIN rows :
                    rows[i].field_id \in field_ids /\ rows[i].status \in statuses})

\* The edges of the task state machine.
StateMachineEdges ==
    {<<"pending", "in_progress">>, <<"in_progress", "completed">>,
     <<"pending", "overdue">>, <<"in_progress", "overdue">>,
     <<"pending", "cancelled">>, <<"in_progress", "cancelled">>,
     <<"overdue", "completed">>, <<"overdue", "cancelled">>}

UpdateCalls == {"update_task_status", "tool_update_task_status"}

\* C1: every change of a task's status follows an edge of the state machine;
\* the edge to overdue is taken only when due_date < now and not by a call of
\* update_task_status; a completed or cancelled task keeps its status.
C1_StatusFollowsStateMachine ==
    [][\A i \in DOMAIN farmer_tasks :
          LET old == farmer_tasks[i].status
              new == farmer_tasks'[i].status
          IN  old # new =>
                /\ <<old, new>> \in StateMachineEdges
                /\ new = "overdue" =>
                      /\ farmer_tasks[i].due_date < now
                      /\ ret'.op \notin UpdateCalls]_vars

\* C5: a get_overdue_tasks call for the field of a pending task whose due_date
\* is before now stores the task as overdue and returns it exactly once; the
\* call leaves a task that is stored as overdue as it is.
C5_OverdueQueryTransitionsOnce ==
    [][GetOverdueTasks({OneField}) =>
          \A i \in DOMAIN farmer_tasks :
              LET task == farmer_tasks[i]
              IN  task.field_id \in OneField =>
                    /\ (task.status = "pending" /\ task.due_date < now) =>
                          /\ farmer_tasks'[i].status = "overdue"
                          /\ Len(SelectSeq(ret'.tasks, LAMBDA r : r.id = task.id)) = 1
                    /\ task.status = "overdue" => farmer_tasks'[i] = task]_vars

\* C8: a call of update_task_status that returns True leaves completion_notes
\* as they were when its new status is not completed, also when notes are
\* passed, and sets completed_at to now when its new status is completed.
C8_NotesOnlyOnCompletion ==
    [][\A task_id \in 1 .. MaxTasks, new_status \in TaskStatus,
          notes \in {None, Some("notes")} :
          (UpdateTaskStatus({task_id}, {new_status}, {notes}) /\ ret'.success) =>
              \A i \in DOMAIN farmer_tasks :
                  farmer_tasks[i].id = task_id =>
                      /\ new_status # "completed" =>
                            farmer_tasks'[i].completion_notes
                                = farmer_tasks[i].completion_notes
                      /\ new_status = "completed" =>
                            farmer_tasks'[i].completed_at = Some(now)]_vars

\* C10: each count by status that get_task_summary reports is the number of
\* tasks of the field set stored with that status when the call returns.
C10_SummaryCountsStoredStatus ==
    [][(GetTaskSummary({OneField}) /\ ret'.summary # NoSummary) =>
          \A status \in {"pending", "in_progress", "completed", "overdue"} :
              ret'.summary[1][status]
                  = StoredWithStatus(farmer_tasks', OneField, {status})]_vars

\* C7: no step removes a row of farmer_tasks or changes a column of a row other
\* than status, completed_at and completion_notes, and every completed or
\* cancelled task is in what get_tasks_for_farmer returns for its field.
C7_Frame ==
    /\ Len(farmer_tasks') >= Len(farmer_tasks)
    /\ \A i \in DOMAIN farmer_tasks : Content(farmer_tasks'[i]) = Content(farmer_tasks[i])
    /\ \A i \in DOMAIN farmer_tasks' :
          farmer_tasks'[i].status \in {"completed", "cancelled"} =>
              farmer_tasks'[i] \in Range(get_tasks_for_farmer(
                                            farmer_tasks', {farmer_tasks'[i].field_id},
                                            {}, {}, {}))

C7_TasksKeptAndContentFrozen == [][C7_Frame]_vars

\* A full store whose first task was completed with notes and whose second
\* task get_overdue_tasks has marked overdue after that.
C7_Witness ==
    /\ Len(farmer_tasks) = MaxTasks
    /\ farmer_tasks[1].status = "completed"
    /\ farmer_tasks[1].completion_notes # None
    /\ farmer_tasks[2].status = "overdue"
    /\ ret.op = "get_overdue_tasks"

\* ---------------------------------------------------- properties: the queries
\* C4: what a query for active tasks returns holds no pending or in_progress
\* task whose due_date is before now, and after the query no such task of the
\* field set is stored.
C4_ActiveQueriesRecheckDueDate ==
    [][(\/ GetTasksForFarmer({OneField}, {ActiveStatuses}, {{}}, {{}})
        \/ GetUpcomingTasks({OneField}, {7})
        \/ GetOverdueTasks({OneField})) =>
          /\ \A r \in Range(ret'.tasks) :
                ~(r.status \in ActiveStatuses /\ r.due_date < now)
          /\ \A i \in DOMAIN farmer_tasks' :
                ~(/\ farmer_tasks'[i].field_id \in OneField
                  /\ farmer_tasks'[i].status \in ActiveStatuses
                  /\ farmer_tasks'[i].due_date < now)]_vars

\* --------------------------------------------------- properties: task creation
\* C6: every row a step adds to farmer_tasks has due_date >= created_at.
C6_DueNotBeforeCreated ==
    [][\A i \in DOMAIN farmer_tasks' \ DOMAIN farmer_tasks :
          farmer_tasks'[i].due_date >= farmer_tasks'[i].created_at]_vars

\* C9: generate_growth_stage_tasks, and generate_weather_alerts, called twice
\* in sequence with the same arguments leave the tasks one call leaves.
C9_CreationIdempotent ==
    /\ \A growth_stage \in StageNames, field_health \in {65, 70} :
          LET once == generate_growth_stage_tasks(CurrentDb, "field_001", growth_stage,
                                                  field_health, now)
              twice == generate_growth_stage_tasks(once, "field_001", growth_stage,
                                                   field_health, now)
          IN  twice.tasks = once.tasks
    /\ \A weather_forecast \in Forecasts :
          LET once == generate_weather_alerts(CurrentDb, "field_001", weather_forecast, now)
              twice == generate_weather_alerts(once, "field_001", weather_forecast, now)
          IN  twice.tasks = once.tasks

\* -------------------------------------------------- properties: the alert scan
\* C2: no (task, kind) has been handed to the channels more than once.
C2_OneAlertPerTaskAndKind ==
    \A pair \in BagToSet(delivered) : CopiesIn(pair, delivered) <= 1

\* The scan that follows a scan at once: it starts from what the first left,
\* at the clock reading the first ended on.
SecondScan(first, field_ids, cross) ==
    check_and_send_alerts(Scan(first.alerts, first.delivered, first.active, first.clk),
                          farmer_tasks, field_ids, cross)

\* C3: two scans in immediate succession hand the urgent alert of an urgent
\* task to the channels at most once in total.
C3_UrgentOnceOverTwoScans ==
    \A cross1 \in BOOLEAN, cross2 \in BOOLEAN :
        LET first == check_and_send_alerts(
                         Scan(sent_alerts, delivered, active_alerts, now),
                         farmer_tasks, OneField, cross1)
            second == SecondScan(first, OneField, cross2)
        IN  \A i \in DOMAIN farmer_tasks :
                farmer_tasks[i].priority = "urgent" =>
                    CopiesIn(<<farmer_tasks[i].id, "urgent">>, second.delivered)
                        - CopiesIn(<<farmer_tasks[i].id, "urgent">>, delivered) <= 1

\* ------------------------------------------------ properties: the sort order
\* The order of the priorities: low < medium < high < urgent.
PriorityRank(priority) ==
    CASE priority = "low" -> 1
      [] priority = "medium" -> 2
      [] priority = "high" -> 3
      [] priority = "urgent" -> 4

\* C11: get_tasks_for_farmer returns exactly the stored tasks of the requested
\* fields that pass the status filter, each once, by due_date ascending and,
\* for equal due_date, by priority from urgent down to low.
C11_FilteredAndSorted ==
    [][\A status_filter \in {ActiveStatuses, {}} :
          GetTasksForFarmer({OneField}, {status_filter}, {{}}, {{}}) =>
              LET result == ret'.tasks
                  wanted == {i \in DOMAIN farmer_tasks :
                                /\ farmer_tasks[i].field_id \in OneField
                                /\ Passes(status_filter, farmer_tasks[i].status)}
              IN  /\ Range(result) = {farmer_tasks[i] : i \in wanted}
                  /\ Len(result) = Cardinality(wanted)
                  /\ \A i \in DOMAIN result, j \in DOMAIN result :
                        i < j =>
                          \/ result[i].due_date < result[j].due_date
                          \/ /\ result[i].due_date = result[j].due_date
                             /\ PriorityRank(result[i].priority)
                                    >= PriorityRank(result[j].priority)]_vars

\* ------------------------------------- properties: weather alerts and reminders
WeatherKinds == {"weather_suitable", "weather_warning"}

\* C12: every weather_dependent task has been handed at most one weather alert
\* in all, and a step hands out a weather alert of a kind only for a task that
\* has no alert of that kind logged.
C12_OneWeatherAlertPerTask ==
    [][/\ \A i \in DOMAIN farmer_tasks' :
            farmer_tasks'[i].weather_dependent =>
                CopiesIn(<<farmer_tasks'[i].id, "weather_suitable">>, delivered')
                    + CopiesIn(<<farmer_tasks'[i].id, "weather_warning">>, delivered') <= 1
       /\ \A i \in DOMAIN farmer_tasks, kind \in WeatherKinds :
            CopiesIn(<<farmer_tasks[i].id, kind>>, delivered')
                    > CopiesIn(<<farmer_tasks[i].id, kind>>, delivered) =>
                ~alert_sent(sent_alerts, farmer_tasks[i].id, kind)]_vars

\* C13: a scan hands out reminder_<h>h for a task only when now is in
\* [due_date - h hours, due_date - h hours + 30 minutes) and no reminder_<h>h
\* is logged for the task, and no task has been handed the reminder of one
\* offset more than once.
C13_ReminderOncePerOffset ==
    [][\A i \in DOMAIN farmer_tasks, h \in Range(reminder_hours_before) :
          LET task == farmer_tasks[i]
              kind == ReminderKind(h)
          IN  /\ CopiesIn(<<task.id, kind>>, delivered')
                      > CopiesIn(<<task.id, kind>>, delivered) =>
                    /\ now >= task.due_date - h * Hour
                    /\ now < task.due_date - h * Hour + HalfHour
                    /\ ~alert_sent(sent_alerts, task.id, kind)
              /\ CopiesIn(<<task.id, kind>>, delivered') <= 1]_vars

\* ------------------------------------------------------ the dashboard list
DashboardNext ==
    \/ Tick(AlertInstants)
    \/ CreateTask(MaxTasks, OneField, {"medium", "urgent"})
    \/ CheckAndSendAlerts({OneField})
    \/ GetActiveAlerts
    \/ MarkAlertRead

SpecDashboard == Init /\ [][DashboardNext]_vars

\* C14: the dashboard list holds one entry for each alert that was handed to
\* the channels, a new entry is unread, and mark_alert_read changes nothing
\* but the read flag of the entry it names.
C14_DashboardHoldsEveryAlert ==
    [][/\ Cardinality(get_active_alerts(active_alerts')) = BagCardinality(delivered')
       /\ \A a \in active_alerts' \ active_alerts :
            a.read => \E b \in active_alerts : b.id = a.id
       /\ MarkAlertRead =>
            /\ {[a EXCEPT !.read = FALSE] : a \in active_alerts'}
                   = {[a EXCEPT !.read = FALSE] : a \in active_alerts}
            /\ \A a \in active_alerts :
                  a.id # ret'.ids[1] => a \in active_alerts']_vars

\* ------------------------------------------- properties: what creation creates
\* The rows a step adds to farmer_tasks, in insertion order.
NewRows == SubSeq(farmer_tasks', Len(farmer_tasks) + 1, Len(farmer_tasks'))

\* What the creation properties say of a task: its category, priority and
\* status, how long after its creation it is due, and its cost.
Shape(category, priority, due_in, cost) ==
    [category |-> category, priority |-> priority, status |-> "pending",
     due_in |-> due_in, cost |-> cost]

ShapeOf(row) ==
    Shape(row.category, row.priority, row.due_date - row.created_at, row.cost_estimate)

Shapes(rows) == [k \in DOMAIN rows |-> ShapeOf(rows[k])]

\* A forecast value that is present and above (below) its threshold.
Above(entry, threshold) == entry # None /\ entry[1] > threshold
Below(entry, threshold) == entry # None /\ entry[1] < threshold

\* The weather_alert tasks of a forecast: wind, frost, rain.
WeatherTasksOf(weather_forecast) ==
    (IF Above(weather_forecast.wind_speed, 40)
     THEN <<Shape("weather_alert", "high", 6 * Hour, 0)>> ELSE <<>>)
    \o (IF Below(weather_forecast.min_temperature, 2)
        THEN <<Shape("weather_alert", "urgent", 12 * Hour, 500)>> ELSE <<>>)
    \o (IF Above(weather_forecast.precipitation, 50)
        THEN <<Shape("weather_alert", "medium", 8 * Hour, 0)>> ELSE <<>>)

\* C15: a call of generate_weather_alerts adds one pending weather_alert task
\* for each threshold its forecast exceeds, with the priority, due time and
\* cost of that threshold, and no other task.
C15_OneTaskPerThreshold ==
    [][\A weather_forecast \in Forecasts :
          GenerateWeatherAlerts(MaxCreated, OneField, {weather_forecast}) =>
              /\ Shapes(NewRows) = WeatherTasksOf(weather_forecast)
              /\ \A k \in DOMAIN NewRows : NewRows[k].created_at = now]_vars

\* One priority level up, for the levels the stage templates are raised from.
Raised(priority) ==
    CASE priority = "medium" -> "high"
      [] priority = "high" -> "urgent"
      [] OTHER -> priority

\* The rows of a step that added the tasks of growth_stage at field_health are
\* due 2 days after their creation and carry the priority of their template,
\* raised when the health is below 70.
StageTasksAsTemplates(growth_stage, field_health) ==
    \A k \in DOMAIN NewRows :
        /\ NewRows[k].due_date = NewRows[k].created_at + 2 * Day
        /\ \E task_data \in Range(stage_tasks(growth_stage)) :
              /\ NewRows[k].title = task_data.title
              /\ NewRows[k].priority =
                    IF field_health < 70 THEN Raised(task_data.priority)
                    ELSE task_data.priority

\* C16: every task created by generate_growth_stage_tasks, called directly or
\* by the generate_ai_tasks tool, is due 2 days after its creation; its
\* priority is its template's raised one level (medium to high, high to
\* urgent) when field_health < 70 and its template's when field_health >= 70.
C16_StageTasksDueInTwoDaysHealthRaisesPriority ==
    [][/\ \A growth_stage \in Stages, field_health \in Healths :
            GenerateGrowthStageTasks(MaxCreated, OneField, {growth_stage}, {field_health})
                => StageTasksAsTemplates(growth_stage, field_health)
       /\ ToolGenerateAiTasks(MaxCreated, OneField, {"Emergence"}, {65})
            => StageTasksAsTemplates("Emergence", 65)]_vars

\* generate_growth_stage_tasks has returned and the store holds a task raised
\* from high to urgent next to one kept at its template's high.
C16_Witness ==
    /\ ret.op = "generate_growth_stage_tasks" /\ ~ret.raised
    /\ \E i, j \in DOMAIN farmer_tasks :
          /\ farmer_tasks[i].title = "Apply Nitrogen Fertilizer"
          /\ farmer_tasks[i].priority = "urgent"
          /\ farmer_tasks[i].due_date = farmer_tasks[i].created_at + 2 * Day
          /\ farmer_tasks[j].title = "Monitor Emergence Rate"
          /\ farmer_tasks[j].priority = "medium"

\* C17: a call of generate_growth_stage_tasks with a stage label that names no
\* stage does not raise and creates the template tasks of Vegetative_Growth.
C17_UnknownStageFallsBackToVegetativeGrowth ==
    [][\A growth_stage \in Stages \ StageNames, field_health \in Healths :
          GenerateGrowthStageTasks(MaxCreated, OneField, {growth_stage}, {field_health}) =>
              /\ ~ret'.raised
              /\ [k \in DOMAIN NewRows |-> NewRows[k].title]
                   = [k \in DOMAIN stage_tasks("Vegetative_Growth") |->
                          stage_tasks("Vegetative_Growth")[k].title]]_vars

\* Days from creation to due date by the timing of an action.
DueDays(timing) ==
    IF timing = Some("immediate") THEN 1
    ELSE IF timing = Some("within_month") THEN 14 ELSE 3

\* The task of one action of a zone: pending, due by the action's timing; the
\* zone and the cost tell which action it was made from.
ActionTask(zone_id, action, status, due_in) ==
    [zone_id |-> zone_id, cost |-> Get(action.cost, 0), status |-> status,
     due_in |-> due_in]

ActionTasksOfZone(zone) ==
    LET actions == Get(zone.actions, <<>>)
    IN  [k \in DOMAIN actions |->
            ActionTask(zone.zone_id, actions[k], "pending",
                       DueDays(actions[k].timing) * Day)]

RECURSIVE ActionTasksOf(_)
ActionTasksOf(zones) ==
    IF zones = <<>> THEN <<>>
    ELSE ActionTasksOfZone(Head(zones)) \o ActionTasksOf(Tail(zones))

\* C18: a call of generate_ai_tasks_from_recommendations adds one pending
\* task per action of every zone, in zone and action order, each due 1 day
\* after its creation for timing immediate, 14 days for within_month and
\* 3 days for within_week and for every other or absent timing.
C18_OneTaskPerActionDueByTiming ==
    [][\A recommendations \in Recommendations :
          GenerateAiTasksFromRecommendations(MaxCreated, OneField, {recommendations}) =>
              [k \in DOMAIN NewRows |->
                  [zone_id |-> Get(NewRows[k].zone_id, ""),
                   cost |-> NewRows[k].cost_estimate,
                   status |-> NewRows[k].status,
                   due_in |-> NewRows[k].due_date - NewRows[k].created_at]]
              = ActionTasksOf(Get(recommendations.zones, <<>>))]_vars

\* ------------------------------------------------ the recommendation engine
MaxHistory == 1    \* field recommendations generated in one behaviour
MaxActions == 2    \* actions in a list handed to _estimate_yield_impact

\* Zones with every column given: a dry healthy zone in vegetative growth, a
\* bare-soil zone short of all three nutrients under an unknown stage label,
\* a maturing zone and an emerging zone that need no fertilizer.
FullZones ==
    {ZoneMeasurement(1, Some(2), Some("Vegetative_Growth"), Some(75), Some(50), Some(10),
                     Some(50), Some(30), Some(220)),
     ZoneMeasurement(2, Some(1), Some("Flowering"), Some(40), Some(25), Some(0),
                     Some(20), Some(15), Some(100)),
     ZoneMeasurement(3, Some(1), Some("Maturation"), Some(60), Some(35), Some(25),
                     Some(50), Some(30), Some(220)),
     ZoneMeasurement(4, Some(1), Some("Emergence"), Some(60), Some(35), Some(25),
                     Some(30), Some(30), Some(220))}

\* A zone of a table that has the zone_id column only.
BareZone(zone_id) ==
    ZoneMeasurement(zone_id, None, None, None, None, None, None, None, None)

\* The zone tables: no zone, one or two zones with every column, one or two
\* zones with the zone_id column only.
ZoneAnalyses ==
    {<<>>, <<BareZone(1)>>, <<BareZone(1), BareZone(2)>>}
    \cup {<<zone>> : zone \in FullZones}
    \cup {zones \in FullZones \X FullZones : zones[1].zone_id < zones[2].zone_id}

\* No forecast values, a dry hot humid week, and a wet mild week.
WeatherForecasts ==
    {WeatherForecast(None, None, None, None),
     WeatherForecast(Some(0), Some(35), Some(85), Some(20)),
     WeatherForecast(Some(40), Some(25), Some(60), Some(20))}

\* Actions as a caller of _estimate_yield_impact may build them: fertilization
\* whose description names a severe deficiency, a deficiency or neither, a
\* monitoring action and a harvesting action.
BuiltAction(action_type, priority, description) ==
    RecommendationAction(action_type, priority, description, "within_week", 1, None, None,
                         None, None)

BuiltActions ==
    {BuiltAction("fertilization", "high", <<"Apply", "potassium", "severe_deficiency">>),
     BuiltAction("fertilization", "medium", <<"Apply", "nitrogen", "deficiency">>),
     BuiltAction("fertilization", "low", <<"Apply", "maintenance dose">>),
     BuiltAction("pest_management", "medium", <<"Monitor">>),
     BuiltAction("harvesting", "high", <<"Plan harvest">>)}

ActionLists ==
    UNION {[1 .. n -> BuiltActions] : n \in 0 .. MaxActions}

RecommendNext ==
    \/ GenerateFieldRecommendations(MaxHistory, OneField, ZoneAnalyses, WeatherForecasts)
    \/ EstimateYieldImpact(ActionLists)

SpecRecommend == Init /\ [][RecommendNext]_vars

\* The number of the actions of a type that satisfy a test on the priority
\* and a test on the description.
HighOf(actions, type) ==
    Len(SelectSeq(actions, LAMBDA a : a.action_type = type /\ a.priority = "high"))

OtherOf(actions, type) ==
    Len(SelectSeq(actions, LAMBDA a : a.action_type = type /\ a.priority # "high"))

SevereOf(actions) ==
    Len(SelectSeq(actions, LAMBDA a : /\ a.action_type = "fertilization"
                                      /\ Mentions(a.description, "severe_deficiency")))

FertilizationOf(actions) ==
    Len(SelectSeq(actions, LAMBDA a : a.action_type = "fertilization"))

DeficiencyOf(actions) ==
    Len(SelectSeq(actions, LAMBDA a : /\ a.action_type = "fertilization"
                                      /\ Mentions(a.description, "deficiency")))
    - SevereOf(actions)

\* The contributions of a list of actions, in hundredths.
Contributions(actions) ==
    12 * HighOf(actions, "irrigation") + 8 * OtherOf(actions, "irrigation")
    + 20 * SevereOf(actions) + 10 * DeficiencyOf(actions)
    + 5 * (FertilizationOf(actions) - SevereOf(actions) - DeficiencyOf(actions))
    + 15 * HighOf(actions, "pest_management") + 5 * OtherOf(actions, "pest_management")

\* An estimate is the contributions of its actions capped at 0.40, so it lies
\* in [0, 0.40].
Saturated(actions, estimated_yield_impact) ==
    /\ estimated_yield_impact \in 0 .. 40
    /\ estimated_yield_impact = Min(Contributions(actions), 40)

\* C19: the estimated_yield_impact of every zone of every field
\* recommendation generated, and of every list of actions handed to
\* _estimate_yield_impact, lies in [0, 0.40] and is the sum of the
\* contributions of the actions, capped at 0.40.
C19_YieldImpactIsCappedSum ==
    /\ \A i \in DOMAIN recommendation_history :
          \A k \in DOMAIN recommendation_history[i].zones :
              Saturated(recommendation_history[i].zones[k].actions,
                        recommendation_history[i].zones[k].estimated_yield_impact)
    /\ ret.op = "estimate_yield_impact" =>
          Saturated(ret.summary[1].actions, ret.summary[1].estimated_yield_impact)

\* A zone was given four actions or more whose contributions exceed 0.40,
\* and its estimate is 0.40.
C19_Witness ==
    \E i \in DOMAIN recommendation_history :
        \E k \in DOMAIN recommendation_history[i].zones :
            /\ Len(recommendation_history[i].zones[k].actions) >= 4
            /\ Contributions(recommendation_history[i].zones[k].actions) > 40
            /\ recommendation_history[i].zones[k].estimated_yield_impact = 40

\* C20: the expected_roi of every field recommendation is not negative, and
\* is 0 when the total_cost of the field is 0 (nothing is divided by zero).
C20_RoiNotNegativeZeroWithoutCost ==
    \A i \in DOMAIN recommendation_history :
        /\ recommendation_history[i].expected_roi.den # 0
        /\ ~IsNegative(recommendation_history[i].expected_roi)
        /\ recommendation_history[i].total_cost = 0 =>
              recommendation_history[i].expected_roi.num = 0

\* A field recommendation over a zone that needs no action: the total cost
\* is 0 and so is the expected_roi.
C20_Witness ==
    \E i \in DOMAIN recommendation_history :
        /\ recommendation_history[i].zones # <<>>
        /\ recommendation_history[i].total_cost = 0
        /\ recommendation_history[i].expected_roi = Percent(0, 1)

\* ------------------------------------------------- properties: irrigation
\* The zones of a table in vegetative growth with soil moisture 10.
DryVegetativeZones(zone_analysis) ==
    {k \in DOMAIN zone_analysis :
        /\ zone_analysis[k].growth_stage = Some("Vegetative_Growth")
        /\ zone_analysis[k].soil_moisture = Some(10)}

\* The forecasts with precipitation_7day 0.
DryForecasts == {w \in WeatherForecasts : w.precipitation_7day = Some(0)}

\* The recommendation of a zone has the given water_stress (in 500ths) and,
\* as its first action, one irrigation action of the given priority, timing
\* and net requirement (in thousandths of a mm), and no other irrigation.
IrrigatesWith(zone, water_stress, priority, timing, net_requirement) ==
    /\ zone.stress_indicators.water_stress = water_stress
    /\ Len(SelectSeq(zone.actions, LAMBDA a : a.action_type = "irrigation")) = 1
    /\ zone.actions[1].action_type = "irrigation"
    /\ zone.actions[1].priority = priority
    /\ zone.actions[1].timing = timing
    /\ zone.actions[1].application_rate = Some(net_requirement)

\* C21 as stated: for a zone in Vegetative_Growth with soil_moisture 10 and
\* precipitation_7day 0 the water_stress is 1.0 and the one irrigation action
\* has priority high, timing immediate and a net requirement of 45.5 mm.
C21_DryZoneIrrigatedHigh ==
    [][\A zone_analysis \in ZoneAnalyses, weather_forecast \in DryForecasts :
          GenerateFieldRecommendations(MaxHistory, OneField, {zone_analysis},
                                       {weather_forecast}) =>
              \A k \in DryVegetativeZones(zone_analysis) :
                  IrrigatesWith(ret'.summary[1].zones[k], 500, "high", "immediate",
                                45500)]_vars

\* C21 amended: for such a zone the water_stress is (25 - 10) / 25 * (20 - 0)
\* / 20 = 0.6, which is not above 0.7, and the one irrigation action has
\* priority medium, timing within_week and a net requirement of
\* 35 * (1 + 0.6 * 0.3) - 0 = 41.3 mm.
C21_DryZoneIrrigatedMedium ==
    [][\A zone_analysis \in ZoneAnalyses, weather_forecast \in DryForecasts :
          GenerateFieldRecommendations(MaxHistory, OneField, {zone_analysis},
                                       {weather_forecast}) =>
              \A k \in DryVegetativeZones(zone_analysis) :
                  IrrigatesWith(ret'.summary[1].zones[k], 300, "medium", "within_week",
                                41300)]_vars

\* A recommendation was generated for the zone of soil moisture 10 under the
\* forecast without rain: its water stress is 0.6 and its irrigation 41.3 mm.
C21_Witness ==
    /\ ret.op = "generate_field_recommendations"
    /\ \E k \in DOMAIN ret.summary[1].zones :
          /\ ret.summary[1].zones[k].zone_id = 1
          /\ ret.summary[1].zones[k].growth_stage = "Vegetative_Growth"
          /\ IrrigatesWith(ret.summary[1].zones[k], 300, "medium", "within_week", 41300)

\* ------------------------------------------------------------ the MCP client
MaxRequests == 3    \* request ids one client generates in one behaviour

\* Milliseconds past the second the clock is read at.
Milliseconds == {1, 2}

ClientNext ==
    \/ Tick(Instants)
    \/ TickMillis(Milliseconds)
    \/ Connect(BOOLEAN)
    \/ GenerateRequestId(MaxRequests)
    \/ CallTool(MaxRequests, BOOLEAN, BOOLEAN)

SpecClient == Init /\ [][ClientNext]_vars

\* C22: any two request ids the client has generated are distinct, and each
\* starts with req_.
C22_RequestIdsDistinct ==
    /\ \A i, j \in DOMAIN client.request_ids :
          i # j => client.request_ids[i] # client.request_ids[j]
    /\ \A i \in DOMAIN client.request_ids : client.request_ids[i].prefix = "req_"

\* ------------------------------------------------------------ the MCP server
\* Clock readings 6 hours and just over 6 hours after the start.
ServerInstants == {6 * Hour, 6 * Hour + 1}

ServerNext ==
    \/ Tick(ServerInstants)
    \/ ShouldUpdateSatelliteData(BothFields)
    \/ TriggerSatelliteProcessing(BothFields, BOOLEAN, BOOLEAN)
    \/ PutCacheEntry(OneField, BOOLEAN)

SpecServer == Init /\ [][ServerNext]_vars

\* The field has a cache entry with a last_updated stamp.
Stamped(field_id) ==
    field_id \in DOMAIN field_cache /\ field_cache[field_id].last_updated # None

\* The age of a stamped entry.
AgeOf(field_id) == now - field_cache[field_id].last_updated[1].iso

\* C23: _should_update_satellite_data is true for a field without a cache
\* entry or whose entry has no last_updated, false for a field whose entry is
\* stamped with the current time, and for a stamped entry it is true exactly
\* when the entry is more than 6 hours old.
C23_StaleAfterSixHours ==
    [][\A field_id \in BothFields :
          ShouldUpdateSatelliteData({field_id}) =>
              /\ ~Stamped(field_id) => ret'.success
              /\ Stamped(field_id) /\ AgeOf(field_id) = 0 => ~ret'.success
              /\ Stamped(field_id) => (ret'.success <=> AgeOf(field_id) > 6 * Hour)]_vars

\* The test has answered for an entry that is exactly 6 hours old: no update.
C23_Witness ==
    /\ ret.op = "should_update_satellite_data"
    /\ \E field_id \in ret.fields :
          Stamped(field_id) /\ AgeOf(field_id) = 6 * Hour /\ ~ret.success

\* ------------------------------------------- properties: branches of the scan
\* The number of alerts of one kind the step hands out for the task.
NewAlerts(task_id, kind) ==
    CopiesIn(<<task_id, kind>>, delivered') - CopiesIn(<<task_id, kind>>, delivered)

ReminderKinds == {"reminder_24h", "reminder_4h", "reminder_1h"}

\* C24: within one scan a task gets the overdue alert only if due_date < now,
\* the urgent alert only if it is not past due, urgent and without a logged
\* 'urgent' alert, and a reminder only if neither of the two applies; so no
\* task gets an overdue alert together with an urgent or a reminder alert in
\* one scan, and an urgent task gets reminders only in scans after the one
\* that logged its urgent alert.
C24_OneBranchPerTask ==
    [][CheckAndSendAlerts({OneField}) =>
          \A i \in DOMAIN farmer_tasks :
              LET task == farmer_tasks[i]
                  past_due == task.due_date < now
                  urgent_open == /\ task.priority = "urgent"
                                 /\ ~alert_sent(sent_alerts, task.id, "urgent")
              IN  /\ NewAlerts(task.id, "overdue") > 0 => past_due
                  /\ NewAlerts(task.id, "urgent") > 0 => ~past_due /\ urgent_open
                  /\ \A kind \in ReminderKinds :
                        NewAlerts(task.id, kind) > 0 => ~past_due /\ ~urgent_open
                  /\ NewAlerts(task.id, "overdue") + NewAlerts(task.id, "urgent") <= 1]_vars

\* A scan has sent a reminder for an urgent task whose urgent alert an earlier
\* scan logged.
C24_Witness ==
    /\ ret.op = "check_and_send_alerts"
    /\ \E i \in DOMAIN farmer_tasks :
          /\ farmer_tasks[i].priority = "urgent"
          /\ alert_sent(sent_alerts, farmer_tasks[i].id, "urgent")
          /\ \E kind \in ReminderKinds : BagIn(<<farmer_tasks[i].id, kind>>, delivered)

\* ------------------------------------------------------ scans side by side
\* The second after the start: a record written then does not meet the key of
\* one written at the start.
ScanInstants == {1}

ScanNext ==
    \/ Tick(ScanInstants)
    \/ CreateTask(MaxTasks, OneField, {"urgent"})
    \/ \E caller \in Callers :
          \/ ScanBegin(caller, {OneField})
          \/ ScanBranch(caller)
          \/ ScanReminder(caller)
          \/ ScanWeather(caller)
          \/ ScanNotify(caller, MaxAlerts)
          \/ ScanLog(caller)
          \/ ScanEnd(caller)

SpecScans == Init /\ [][ScanNext]_vars

\* The scan is between its check and its log record for the alert.
Pending(sc, task_id, kind) ==
    sc.pc \in {"notify", "log"} /\ sc.kind = kind /\ Head(sc.tasks).id = task_id

\* C25: a scan passes the not-yet-sent check for an urgent alert whenever no
\* record of it is logged, also while another scan is between its own check
\* and its log record for the same alert (nothing reserves the alert), and a
\* scan that has passed the check dispatches the alert whatever has been
\* logged since.
C25_CheckReservesNothing ==
    [][\A caller \in Callers :
          /\ ScanBranch(caller) =>
                LET sc == scans[caller]
                    task == Head(sc.tasks)
                    unlogged == \A row \in sent_alerts :
                                    ~(row.task_id = task.id /\ row.alert_type = "urgent")
                IN  (task.due_date >= sc.current_time /\ task.priority = "urgent"
                        /\ unlogged)
                        => Pending(scans'[caller], task.id, "urgent")
          /\ ScanNotify(caller, MaxAlerts) =>
                NewAlerts(Head(scans[caller].tasks).id, scans[caller].kind) = 1]_vars

\* Both scans have dispatched the urgent alert of one task and neither has
\* written its record yet: the alert has gone out twice.
C25_Witness ==
    \E task_id \in {farmer_tasks[i].id : i \in DOMAIN farmer_tasks} :
        /\ \A caller \in Callers :
              scans[caller].pc = "log" /\ Pending(scans[caller], task_id, "urgent")
        /\ CopiesIn(<<task_id, "urgent">>, delivered) = 2
        /\ ~alert_sent(sent_alerts, task_id, "urgent")

\* ------------------------------------------------ properties: overdue query
\* The ids of the stored tasks of the fields that are past due and neither
\* completed nor cancelled.
OverdueIds(field_ids) ==
    {farmer_tasks[i].id : i \in
        {j \in DOMAIN farmer_tasks :
            /\ farmer_tasks[j].field_id \in field_ids
            /\ farmer_tasks[j].due_date < now
            /\ farmer_tasks[j].status \notin {"completed", "cancelled"}}}

\* C26: a call of get_overdue_tasks that returns gives every task of the
\* field set that is past due and neither completed nor cancelled, those
\* already stored as overdue included.
C26_OverdueTasksStayListed ==
    [][GetOverdueTasks({OneField}) /\ ~ret'.raised =>
          {ret'.tasks[i].id : i \in DOMAIN ret'.tasks} = OverdueIds(OneField)]_vars

\* ------------------------------------------- properties: the log of a scan
AlertKinds ==
    {"overdue", "urgent", "weather_suitable", "weather_warning"} \cup ReminderKinds

\* C27: a scan returns without an exception, and every alert it hands out has
\* a sent_alerts record for the same task and kind when it returns, also when
\* it hands out two or more alerts within one second.
C27_EveryDispatchLogged ==
    [][CheckAndSendAlerts({OneField}) =>
          /\ ~ret'.raised
          /\ \A i \in DOMAIN farmer_tasks, kind \in AlertKinds :
                NewAlerts(farmer_tasks[i].id, kind) > 0 =>
                    alert_sent(sent_alerts', farmer_tasks[i].id, kind)]_vars

\* ------------------------------------- properties: the writes of the store
\* C28: create_task and update_task_status run to completion: the call does
\* not raise, and when it returns the history entry it wrote is stored.
C28_WritesRunToCompletion ==
    [][/\ CreateFarmerTask(MaxTasks, OneField, {"irrigation"}, {"medium"}, {24}) =>
            /\ ~ret'.raised
            /\ \A i \in DOMAIN ret'.ids :
                  [task_id |-> ret'.ids[i], action |-> "created"] \in task_history'
       /\ \A task_id \in 1 .. MaxTasks :
            UpdateTaskStatus({task_id}, TaskStatus, {None, Some("notes")}) =>
                /\ ~ret'.raised
                /\ [task_id |-> task_id, action |-> "status_changed"] \in task_history']_vars

\* C29: update_task_status with a task id the store has no row for returns
\* False and leaves farmer_tasks and task_history as they were.
C29_UnknownIdChangesNothing ==
    [][\A task_id \in 1 .. MaxTasks :
          /\ UpdateTaskStatus({task_id}, TaskStatus, {None, Some("notes")})
          /\ \A i \in DOMAIN farmer_tasks : farmer_tasks[i].id # task_id
          => /\ ~ret'.raised
             /\ ~ret'.success
             /\ farmer_tasks' = farmer_tasks
             /\ task_history' = task_history]_vars

\* ------------------------------------------------------ export to the tasks
\* The number of tasks the store is let grow to by the exported actions.
MaxExported == 6

ExportNext ==
    \/ GenerateFieldRecommendations(MaxHistory, OneField, ZoneAnalyses, WeatherForecasts)
    \/ ExportRecommendations({"json", "csv"})
    \/ GenerateAiTasksFromExport(MaxExported, OneField)

SpecExport == Init /\ [][ExportNext]_vars

\* The actions of the zones, in the order of the zones.
RECURSIVE FlatActions(_)
FlatActions(zones) ==
    IF zones = <<>> THEN <<>> ELSE Head(zones).actions \o FlatActions(Tail(zones))

\* C30: the task created from an exported irrigation or fertilization action
\* has the category of the action's type and the action's estimated_cost as
\* its cost_estimate.
C30_TasksCarryTypeAndCost ==
    [][GenerateAiTasksFromExport(MaxExported, OneField) /\ ~ret'.raised =>
          LET actions == FlatActions(json_loads(ret.summary[1]).zones)
          IN  /\ Len(farmer_tasks') = Len(farmer_tasks) + Len(actions)
              /\ \A n \in DOMAIN actions :
                    actions[n].action_type \in {"irrigation", "fertilization"} =>
                        LET task == farmer_tasks'[Len(farmer_tasks) + n]
                        IN  /\ task.category = actions[n].action_type
                            /\ task.cost_estimate = Get(actions[n].estimated_cost, 0)]_vars

====
